---------------------------- MODULE BreakerProofs ----------------------------
(***************************************************************************)
(* Machine-checked proofs about Breaker, for any number of threads, any    *)
(* set of configurations and any clock bound: its safety properties, those *)
(* of BreakerTimely, and that Breaker implements Circuit as long as calls  *)
(* do not overlap, every access to shared memory mapping to a step of      *)
(* Circuit or to no step at all.                                           *)
(***************************************************************************)
EXTENDS BreakerTimely, BreakerSequential, TLAPS

-----------------------------------------------------------------------------
(* The inductive invariant *)

\* The cooldown in force, and the one a thread acts on, were configured.
Configured(cd) == \E c \in Configs : cd = c.cooldown

\* What a thread at label l with ticket tk and locals r has established.
Knows(l, tk, r) ==
  /\ l = "claim_cas" => Configured(r.cd) /\ r.at >= r.stamp + r.cd
  /\ l \in {"rel_clock", "rel_load", "rel_state", "rel_last", "rel_cap", "rel_arm"} =>
       Configured(r.cd)
  /\ l = "rel_cap" /\ r.last # Never => r.at >= r.last + r.cd
  /\ l \in {"ok_zero", "ok_swap"} => tk = "Probe"
  /\ l \in {"fail_add", "fail_check"} => r.seen = "Closed"
  /\ l \in {"fail_clock", "fail_store", "fail_cas"} /\ r.seen = "HalfOpen" => tk = "Probe"
  /\ l = "conf_threshold" => r.n # 0

SharedInv ==
  /\ state \in CircuitState
  /\ failures \in Nat
  /\ openedAt \in Nat
  /\ rearmedAt \in Nat \cup {Never}
  /\ cooldown \in Nat \ {0}
  /\ threshold \in Nat \ {0}
  /\ stateGauge \in CircuitState
  /\ aliveGauge \in {0, 1}
  /\ now \in Nat
  /\ Configured(cooldown)
  /\ openedAt <= now
  /\ rearmedAt # Never => rearmedAt <= now

IInv ==
  /\ SharedInv
  /\ pc \in [Threads -> Labels]
  /\ ticket \in [Threads -> Admission \cup {"None"}]
  /\ loc \in [Threads -> Locals]
  /\ \A t \in Threads :
       /\ Knows(pc[t], ticket[t], loc[t])
       /\ loc[t].at <= now
       /\ loc[t].stamp <= now

-----------------------------------------------------------------------------

\* A new breaker satisfies the invariant (CircuitBreaker::new).
LEMMA InitIInv == Init => IInv
BY ConfigsAssumption, ConstantsAssumption
   DEF Init, IInv, SharedInv, Configured, Knows, CircuitState, Labels, Locals, Blank, Admission

\* A step that moves one thread preserves the invariant if the shared
\* variables and that thread's new label, ticket and locals are as they must be.
LEMMA ThreadStep ==
  ASSUME IInv, SharedInv', now' = now,
         NEW t \in Threads, NEW l \in Labels, NEW tk \in Admission \cup {"None"},
         NEW r \in Locals,
         pc' = [pc EXCEPT ![t] = l],
         ticket' = [ticket EXCEPT ![t] = tk],
         loc' = [loc EXCEPT ![t] = r],
         Knows(l, tk, r), r.at <= now, r.stamp <= now
  PROVE  IInv'
<1>1. /\ pc' \in [Threads -> Labels]
      /\ ticket' \in [Threads -> Admission \cup {"None"}]
      /\ loc' \in [Threads -> Locals]
  BY Zenon DEF IInv
<1>2. ASSUME NEW s \in Threads
      PROVE  /\ Knows(pc'[s], ticket'[s], loc'[s])
             /\ loc'[s].at <= now'
             /\ loc'[s].stamp <= now'
  <2>1. CASE s = t
    BY <2>1, Zenon DEF IInv
  <2>2. CASE s # t
    BY <2>2, Zenon DEF IInv
  <2> QED
    BY <2>1, <2>2, Zenon
<1> QED
  BY <1>1, <1>2, Zenon DEF IInv

\* The blank locals are well-typed and no label of a thread at rest, or about
\* to publish the gauges, asks anything of them.
LEMMA BlankLocals ==
  /\ Blank \in Locals
  /\ Blank.at = 0 /\ Blank.stamp = 0
  /\ \A l \in {"idle", "held", "gauge_load"}, tk \in Admission \cup {"None"} :
       l \in Labels /\ Knows(l, tk, Blank)
BY ConstantsAssumption, Zenon DEF Blank, Locals, CircuitState, Labels, Knows

\* A call that returns preserves the invariant.
LEMMA ReturnStep ==
  ASSUME IInv, SharedInv', now' = now,
         NEW t \in Threads, NEW tk \in Admission \cup {"None"},
         Return(t, tk) \/ PublishAndReturn(t, tk)
  PROVE  IInv'
<1>1. PICK l \in {"idle", "held", "gauge_load"} : pc' = [pc EXCEPT ![t] = l]
  BY Zenon DEF Return, PublishAndReturn, Rest
<1>2. /\ ticket' = [ticket EXCEPT ![t] = tk]
      /\ loc' = [loc EXCEPT ![t] = Blank]
  BY Zenon DEF Return, PublishAndReturn
<1>3. Blank.at <= now /\ Blank.stamp <= now
  BY BlankLocals DEF IInv, SharedInv
<1>4. l \in Labels /\ Knows(l, tk, Blank)
  BY BlankLocals, Zenon
<1> QED
  BY <1>1, <1>2, <1>3, <1>4, BlankLocals, ThreadStep, Zenon

\* A thread that stays in its call preserves the invariant.
LEMMA GotoStep ==
  ASSUME IInv, SharedInv', now' = now,
         NEW t \in Threads, NEW l \in Labels, NEW r \in Locals,
         Goto(t, l), loc' = [loc EXCEPT ![t] = r],
         Knows(l, ticket[t], r), r.at <= now, r.stamp <= now
  PROVE  IInv'
<1>1. /\ ticket[t] \in Admission \cup {"None"}
      /\ ticket' = [ticket EXCEPT ![t] = ticket[t]]
      /\ pc' = [pc EXCEPT ![t] = l]
  BY Zenon DEF IInv, Goto
<1> QED
  BY <1>1, ThreadStep, Zenon

\* What the invariant says of one thread, and what a step that leaves the
\* shared variables alone keeps.
LEMMA ThreadFacts ==
  ASSUME IInv, NEW t \in Threads
  PROVE  /\ loc[t] \in Locals
         /\ loc[t].at \in Nat /\ loc[t].stamp \in Nat /\ loc[t].cd \in Nat /\ loc[t].n \in Nat
         /\ loc[t].seen \in CircuitState
         /\ loc[t].last \in Nat \cup {Never}
         /\ loc[t].at <= now /\ loc[t].stamp <= now
         /\ Knows(pc[t], ticket[t], loc[t])
         /\ ticket[t] \in Admission \cup {"None"}
         /\ loc = [loc EXCEPT ![t] = loc[t]]
BY Zenon DEF IInv, Locals

\* A step that only reads (a load, a clock, an early return) keeps what the
\* invariant says of the shared variables.
LEMMA SharedUnchanged ==
  ASSUME SharedInv, UNCHANGED <<atomics, config, gauges, now>>
  PROVE  SharedInv' /\ now' = now
BY Zenon DEF SharedInv, Configured, atomics, config, gauges

\* Starting a call preserves the invariant (the first access of each
\* operation of the breaker).
LEMMA CallIInv ==
  ASSUME IInv, NEW t \in Threads, Call(t)
  PROVE  IInv'
<1> USE ThreadFacts
<1>1. CASE TryAcquire(t)
  <2>1. SharedInv' /\ now' = now
    BY <1>1, SharedUnchanged, Zenon DEF TryAcquire, IInv
  <2>2. CASE Return(t, "Normal")
    BY <2>1, <2>2, ReturnStep, Zenon DEF Admission
  <2>3. CASE Goto(t, "claim_load") /\ loc' = [loc EXCEPT ![t].seen = state]
    <3> DEFINE r == [loc[t] EXCEPT !.seen = state]
    <3>1. r \in Locals /\ r.at = loc[t].at /\ r.stamp = loc[t].stamp
      BY Zenon DEF Locals, IInv, SharedInv
    <3>2. loc' = [loc EXCEPT ![t] = r]
      BY <2>3, Zenon
    <3>3. Knows("claim_load", ticket[t], r) /\ "claim_load" \in Labels
      BY Zenon DEF Knows, Labels
    <3> HIDE DEF r
    <3> QED
      BY <2>1, <2>3, <3>1, <3>2, <3>3, GotoStep, Zenon
  <2> QED
    BY <1>1, <2>2, <2>3, Zenon DEF TryAcquire
<1>2. CASE Release(t)
  <2>1. SharedInv' /\ now' = now
    BY <1>2, SharedUnchanged, Zenon DEF Release, IInv
  <2>2. CASE Return(t, "None")
    BY <2>1, <2>2, ReturnStep, Zenon
  <2>3. CASE Goto(t, "rel_clock") /\ loc' = [loc EXCEPT ![t].cd = cooldown]
    <3> DEFINE r == [loc[t] EXCEPT !.cd = cooldown]
    <3>1. r \in Locals /\ r.at = loc[t].at /\ r.stamp = loc[t].stamp /\ r.cd = cooldown
      BY Zenon DEF Locals, IInv, SharedInv
    <3>2. loc' = [loc EXCEPT ![t] = r]
      BY <2>3, Zenon
    <3>3. Knows("rel_clock", ticket[t], r) /\ "rel_clock" \in Labels
      BY <3>1, Zenon DEF Knows, Labels, IInv, SharedInv
    <3> HIDE DEF r
    <3> QED
      BY <2>1, <2>3, <3>1, <3>2, <3>3, GotoStep, Zenon
  <2> QED
    BY <1>2, <2>2, <2>3, Zenon DEF Release
<1>3. CASE RecordSuccess(t)
  <2>1. SharedInv' /\ now' = now
    BY <1>3, SharedUnchanged, Zenon DEF RecordSuccess, IInv
  <2>2. CASE Return(t, "None")
    BY <2>1, <2>2, ReturnStep, Zenon
  <2>3. CASE ticket[t] = "Probe" /\ Goto(t, "ok_zero") /\ UNCHANGED loc
    <3>1. Knows("ok_zero", ticket[t], loc[t]) /\ "ok_zero" \in Labels
      BY <2>3, Zenon DEF Knows, Labels
    <3> QED
      BY <2>1, <2>3, <3>1, GotoStep, Zenon
  <2>4. CASE Goto(t, "ok_reset") /\ UNCHANGED loc
    <3>1. Knows("ok_reset", ticket[t], loc[t]) /\ "ok_reset" \in Labels
      BY Zenon DEF Knows, Labels
    <3> QED
      BY <2>1, <2>4, <3>1, GotoStep, Zenon
  <2> QED
    BY <1>3, <2>2, <2>3, <2>4, Zenon DEF RecordSuccess
<1>4. CASE RecordFailure(t)
  <2> DEFINE r == [loc[t] EXCEPT !.seen = state]
  <2>1. SharedInv' /\ now' = now
    BY <1>4, SharedUnchanged, Zenon DEF RecordFailure, IInv
  <2>2. r \in Locals /\ r.at = loc[t].at /\ r.stamp = loc[t].stamp /\ r.seen = state
    BY ZenonT(40) DEF Locals, IInv, SharedInv
  <2>3. CASE Return(t, "None")
    BY <2>1, <2>3, ReturnStep, Zenon
  <2>4. CASE state = "Closed" /\ Goto(t, "fail_add") /\ loc' = [loc EXCEPT ![t].seen = state]
    <3>1. loc' = [loc EXCEPT ![t] = r]
      BY <2>4, Zenon
    <3>2. Knows("fail_add", ticket[t], r) /\ "fail_add" \in Labels
      BY <2>2, <2>4, Zenon DEF Knows, Labels
    <3> HIDE DEF r
    <3> QED
      BY <2>1, <2>2, <2>4, <3>1, <3>2, GotoStep, Zenon
  <2>5. CASE /\ ticket[t] = "Probe" /\ Goto(t, "fail_clock")
             /\ loc' = [loc EXCEPT ![t].seen = state]
    <3>1. loc' = [loc EXCEPT ![t] = r]
      BY <2>5, Zenon
    <3>2. Knows("fail_clock", ticket[t], r) /\ "fail_clock" \in Labels
      BY <2>2, <2>5, Zenon DEF Knows, Labels
    <3> HIDE DEF r
    <3> QED
      BY <2>1, <2>2, <2>5, <3>1, <3>2, GotoStep, Zenon
  <2> QED
    BY <1>4, <2>3, <2>4, <2>5, Zenon DEF RecordFailure
<1>5. CASE Drop(t)
  BY <1>5, SharedUnchanged, ReturnStep, Zenon DEF Drop, IInv
<1>6. CASE HealthTick(t)
  <2>1. SharedInv' /\ now' = now
    BY <1>6, SharedUnchanged, Zenon DEF HealthTick, IInv
  <2> QED
    BY <1>6, <2>1, ReturnStep, Zenon DEF HealthTick, Admission
<1>7. CASE Reconfigure(t)
  <2>1. PICK c \in Configs : cooldown' = c.cooldown /\ loc' = [loc EXCEPT ![t].n = c.threshold]
    BY <1>7, Zenon DEF Reconfigure
  <2> DEFINE r == [loc[t] EXCEPT !.n = c.threshold]
  <2>2. SharedInv' /\ now' = now
    BY <1>7, <2>1, ConfigsAssumption, Zenon DEF Reconfigure, IInv, SharedInv, Configured, atomics, gauges
  <2>3. r \in Locals /\ r.at = loc[t].at /\ r.stamp = loc[t].stamp /\ r.n # 0
    BY ConfigsAssumption, Zenon DEF Locals
  <2>4. loc' = [loc EXCEPT ![t] = r]
    BY <2>1, Zenon
  <2>5. Knows("conf_threshold", ticket[t], r) /\ "conf_threshold" \in Labels
    BY <2>3, Zenon DEF Knows, Labels
  <2> HIDE DEF r
  <2> QED
    BY <1>7, <2>2, <2>3, <2>4, <2>5, GotoStep, Zenon DEF Reconfigure
<1> QED
  BY <1>1, <1>2, <1>3, <1>4, <1>5, <1>6, <1>7, Zenon DEF Call

\* The accesses of try_acquire and claim_probe_slot preserve the invariant.
LEMMA ClaimIInv ==
  ASSUME IInv, NEW t \in Threads,
         ClaimLoad(t) \/ ClaimClock(t) \/ ClaimCheck(t) \/ ClaimCas(t) \/ HalfCas(t)
  PROVE  IInv'
<1> USE ThreadFacts
<1>1. CASE ClaimLoad(t)
  <2> DEFINE r == [loc[t] EXCEPT !.stamp = openedAt]
  <2>1. SharedInv' /\ now' = now
    BY <1>1, SharedUnchanged, Zenon DEF ClaimLoad, IInv
  <2>2. r \in Locals /\ r.at = loc[t].at /\ r.stamp <= now
    BY DEF Locals, IInv, SharedInv
  <2>3. Goto(t, "claim_clock") /\ loc' = [loc EXCEPT ![t] = r]
    BY <1>1, Zenon DEF ClaimLoad
  <2>4. Knows("claim_clock", ticket[t], r) /\ "claim_clock" \in Labels
    BY Zenon DEF Knows, Labels
  <2> HIDE DEF r
  <2> QED
    BY <2>1, <2>2, <2>3, <2>4, GotoStep, Zenon
<1>2. CASE ClaimClock(t)
  <2> DEFINE r == [loc[t] EXCEPT !.at = now]
  <2>1. SharedInv' /\ now' = now
    BY <1>2, SharedUnchanged, Zenon DEF ClaimClock, IInv
  <2>2. r \in Locals /\ r.at <= now /\ r.stamp = loc[t].stamp
    BY DEF Locals, IInv, SharedInv
  <2>3. Goto(t, "claim_check") /\ loc' = [loc EXCEPT ![t] = r]
    BY <1>2, Zenon DEF ClaimClock
  <2>4. Knows("claim_check", ticket[t], r) /\ "claim_check" \in Labels
    BY Zenon DEF Knows, Labels
  <2> HIDE DEF r
  <2> QED
    BY <2>1, <2>2, <2>3, <2>4, GotoStep, Zenon
<1>3. CASE ClaimCheck(t)
  <2>1. SharedInv' /\ now' = now
    BY <1>3, SharedUnchanged, Zenon DEF ClaimCheck, IInv
  <2>2. CASE Return(t, "None")
    BY <2>1, <2>2, ReturnStep, Zenon
  <2>3. CASE /\ SaturatingSub(loc[t].at, loc[t].stamp) >= cooldown
             /\ Goto(t, "claim_cas") /\ loc' = [loc EXCEPT ![t].cd = cooldown]
    <3> DEFINE r == [loc[t] EXCEPT !.cd = cooldown]
    <3>1. /\ r \in Locals /\ r.at = loc[t].at /\ r.stamp = loc[t].stamp /\ r.cd = cooldown
          /\ cooldown \in Nat \ {0}
          /\ Configured(cooldown)
      BY ZenonT(40) DEF Locals, IInv, SharedInv
    <3>2. loc' = [loc EXCEPT ![t] = r]
      BY <2>3, Zenon
    <3>3. r.at >= r.stamp + r.cd
      BY <2>3, <3>1 DEF SaturatingSub
    <3>4. Knows("claim_cas", ticket[t], r) /\ "claim_cas" \in Labels
      BY <3>1, <3>3, Zenon DEF Knows, Labels
    <3> HIDE DEF r
    <3> QED
      BY <2>1, <2>3, <3>1, <3>2, <3>4, GotoStep, Zenon
  <2> QED
    BY <1>3, <2>2, <2>3, Zenon DEF ClaimCheck
<1>4. CASE ClaimCas(t)
  <2>1. SharedInv' /\ now' = now
    BY <1>4 DEF ClaimCas, IInv, SharedInv, Configured, config, gauges
  <2>2. CASE Return(t, "None") \/ Return(t, "Probe")
    BY <2>1, <2>2, ReturnStep, Zenon DEF Admission
  <2>3. CASE Goto(t, "half_cas") /\ UNCHANGED loc
    <3>1. Knows("half_cas", ticket[t], loc[t]) /\ "half_cas" \in Labels
      BY Zenon DEF Knows, Labels
    <3> QED
      BY <2>1, <2>3, <3>1, GotoStep, Zenon
  <2> QED
    BY <1>4, <2>2, <2>3, Zenon DEF ClaimCas
<1>5. CASE HalfCas(t)
  <2>1. SharedInv' /\ now' = now
    BY <1>5, Zenon DEF HalfCas, Transition, IInv, SharedInv, CircuitState, Configured, config, gauges
  <2> QED
    BY <1>5, <2>1, ReturnStep, Zenon DEF HalfCas, Transition, Admission
<1> QED
  BY <1>1, <1>2, <1>3, <1>4, <1>5, Zenon

\* The accesses of release preserve the invariant.
LEMMA ReleaseIInv ==
  ASSUME IInv, NEW t \in Threads,
         \/ ReleaseClock(t) \/ ReleaseLoad(t) \/ ReleaseState(t) \/ ReleaseLast(t)
         \/ ReleaseCap(t) \/ ReleaseArm(t)
  PROVE  IInv'
<1> USE ThreadFacts
<1>1. CASE ReleaseClock(t)
  <2> DEFINE r == [loc[t] EXCEPT !.at = now]
  <2>1. SharedInv' /\ now' = now
    BY <1>1, SharedUnchanged, Zenon DEF ReleaseClock, IInv
  <2>2. r \in Locals /\ r.at <= now /\ r.stamp = loc[t].stamp /\ r.cd = loc[t].cd
    BY DEF Locals, IInv, SharedInv
  <2>3. Goto(t, "rel_load") /\ loc' = [loc EXCEPT ![t] = r]
    BY <1>1, Zenon DEF ReleaseClock
  <2>4. Knows("rel_load", ticket[t], r) /\ "rel_load" \in Labels
    BY <1>1, <2>2, Zenon DEF Knows, Labels, ReleaseClock, At
  <2> HIDE DEF r
  <2> QED
    BY <2>1, <2>2, <2>3, <2>4, GotoStep, Zenon
<1>2. CASE ReleaseLoad(t)
  <2> DEFINE r == [loc[t] EXCEPT !.stamp = openedAt]
  <2>1. SharedInv' /\ now' = now
    BY <1>2, SharedUnchanged, Zenon DEF ReleaseLoad, IInv
  <2>2. r \in Locals /\ r.at = loc[t].at /\ r.stamp <= now /\ r.cd = loc[t].cd
    BY DEF Locals, IInv, SharedInv
  <2>3. Goto(t, "rel_state") /\ loc' = [loc EXCEPT ![t] = r]
    BY <1>2, Zenon DEF ReleaseLoad
  <2>4. Knows("rel_state", ticket[t], r) /\ "rel_state" \in Labels
    BY <1>2, <2>2, Zenon DEF Knows, Labels, ReleaseLoad, At
  <2> HIDE DEF r
  <2> QED
    BY <2>1, <2>2, <2>3, <2>4, GotoStep, Zenon
<1>3. CASE ReleaseState(t)
  <2>1. SharedInv' /\ now' = now
    BY <1>3, SharedUnchanged, Zenon DEF ReleaseState, IInv
  <2>2. CASE Return(t, "None")
    BY <2>1, <2>2, ReturnStep, Zenon
  <2>3. CASE Goto(t, "rel_last") /\ UNCHANGED loc
    <3>1. Knows("rel_last", ticket[t], loc[t]) /\ "rel_last" \in Labels
      BY <1>3, Zenon DEF Knows, Labels, ReleaseState, At
    <3> QED
      BY <2>1, <2>3, <3>1, GotoStep, Zenon
  <2> QED
    BY <1>3, <2>2, <2>3, Zenon DEF ReleaseState
<1>4. CASE ReleaseLast(t)
  <2>1. SharedInv' /\ now' = now
    BY <1>4, SharedUnchanged, Zenon DEF ReleaseLast, IInv
  <2>2. CASE Return(t, "None")
    BY <2>1, <2>2, ReturnStep, Zenon
  <2>3. CASE /\ ~RearmTooSoon(loc[t].at, rearmedAt, loc[t].cd)
             /\ Goto(t, "rel_cap") /\ loc' = [loc EXCEPT ![t].last = rearmedAt]
    <3> DEFINE r == [loc[t] EXCEPT !.last = rearmedAt]
    <3>1. /\ r \in Locals /\ r.at = loc[t].at /\ r.stamp = loc[t].stamp
          /\ r.cd = loc[t].cd /\ r.last = rearmedAt
          /\ rearmedAt \in Nat \cup {Never}
          /\ Configured(r.cd) /\ r.cd \in Nat
      BY <1>4 DEF Locals, IInv, SharedInv, Knows, ReleaseLast, At
    <3>2. loc' = [loc EXCEPT ![t] = r]
      BY <2>3, Zenon
    <3>3. r.cd # 0
      BY <3>1, ConfigsAssumption, Zenon DEF Configured
    <3>4. r.last # Never => r.at >= r.last + r.cd
      BY <2>3, <3>1, <3>3 DEF RearmTooSoon, SaturatingSub
    <3>5. Knows("rel_cap", ticket[t], r) /\ "rel_cap" \in Labels
      BY <3>1, <3>4, Zenon DEF Knows, Labels
    <3> HIDE DEF r
    <3> QED
      BY <2>1, <2>3, <3>1, <3>2, <3>5, GotoStep, Zenon
  <2> QED
    BY <1>4, <2>2, <2>3, Zenon DEF ReleaseLast
<1>5. CASE ReleaseCap(t)
  <2>1. SharedInv' /\ now' = now
    BY <1>5, Zenon DEF ReleaseCap, IInv, SharedInv, Configured, config, gauges
  <2>2. CASE Return(t, "None")
    BY <2>1, <2>2, ReturnStep, Zenon
  <2>3. CASE Goto(t, "rel_arm") /\ UNCHANGED loc
    <3>1. Knows("rel_arm", ticket[t], loc[t]) /\ "rel_arm" \in Labels
      BY <1>5, Zenon DEF Knows, Labels, ReleaseCap, At
    <3> QED
      BY <2>1, <2>3, <3>1, GotoStep, Zenon
  <2> QED
    BY <1>5, <2>2, <2>3, Zenon DEF ReleaseCap
<1>6. CASE ReleaseArm(t)
  <2>1. openedAt' \in Nat /\ openedAt' <= now
    BY <1>6 DEF ReleaseArm, SaturatingSub, IInv, SharedInv
  <2>2. SharedInv' /\ now' = now
    BY <1>6, <2>1, Zenon DEF ReleaseArm, IInv, SharedInv, Configured, config, gauges
  <2> QED
    BY <1>6, <2>2, ReturnStep, Zenon DEF ReleaseArm
<1> QED
  BY <1>1, <1>2, <1>3, <1>4, <1>5, <1>6, Zenon

\* The accesses of record_success and record_failure preserve the invariant.
LEMMA RecordIInv ==
  ASSUME IInv, NEW t \in Threads,
         \/ SuccessZero(t) \/ SuccessSwap(t) \/ SuccessReset(t)
         \/ FailureAdd(t) \/ FailureCheck(t) \/ FailureClock(t)
         \/ FailureStore(t) \/ FailureCas(t)
  PROVE  IInv'
<1> USE ThreadFacts
<1>1. CASE SuccessZero(t)
  <2>1. SharedInv' /\ now' = now
    BY <1>1, Zenon DEF SuccessZero, IInv, SharedInv, Configured, config, gauges
  <2>2. Knows("ok_swap", ticket[t], loc[t]) /\ "ok_swap" \in Labels
    BY <1>1, Zenon DEF Knows, Labels, SuccessZero, At
  <2> QED
    BY <1>1, <2>1, <2>2, GotoStep, Zenon DEF SuccessZero
<1>2. CASE SuccessSwap(t)
  <2>1. SharedInv' /\ now' = now
    BY <1>2, Zenon DEF SuccessSwap, IInv, SharedInv, CircuitState, Configured, config, gauges
  <2> QED
    BY <1>2, <2>1, ReturnStep, Zenon DEF SuccessSwap
<1>3. CASE SuccessReset(t)
  <2>1. SharedInv' /\ now' = now
    BY <1>3, Zenon DEF SuccessReset, IInv, SharedInv, Configured, config, gauges
  <2> QED
    BY <1>3, <2>1, ReturnStep, Zenon DEF SuccessReset
<1>4. CASE FailureAdd(t)
  <2> DEFINE r == [loc[t] EXCEPT !.n = failures + 1]
  <2>1. SharedInv' /\ now' = now
    BY <1>4 DEF FailureAdd, IInv, SharedInv, Configured, config, gauges
  <2>2. r \in Locals /\ r.at = loc[t].at /\ r.stamp = loc[t].stamp /\ r.seen = loc[t].seen
    BY DEF Locals, IInv, SharedInv
  <2>3. Goto(t, "fail_check") /\ loc' = [loc EXCEPT ![t] = r]
    BY <1>4, Zenon DEF FailureAdd
  <2>4. Knows("fail_check", ticket[t], r) /\ "fail_check" \in Labels
    BY <1>4, <2>2, Zenon DEF Knows, Labels, FailureAdd, At
  <2> HIDE DEF r
  <2> QED
    BY <2>1, <2>2, <2>3, <2>4, GotoStep, Zenon
<1>5. CASE FailureCheck(t)
  <2>1. SharedInv' /\ now' = now
    BY <1>5, SharedUnchanged, Zenon DEF FailureCheck, IInv
  <2>2. CASE Return(t, "None")
    BY <2>1, <2>2, ReturnStep, Zenon
  <2>3. CASE Goto(t, "fail_clock") /\ UNCHANGED loc
    <3>1. Knows("fail_clock", ticket[t], loc[t]) /\ "fail_clock" \in Labels
      BY <1>5, Zenon DEF Knows, Labels, FailureCheck, At
    <3> QED
      BY <2>1, <2>3, <3>1, GotoStep, Zenon
  <2> QED
    BY <1>5, <2>2, <2>3, Zenon DEF FailureCheck
<1>6. CASE FailureClock(t)
  <2> DEFINE r == [loc[t] EXCEPT !.at = now]
  <2>1. SharedInv' /\ now' = now
    BY <1>6, SharedUnchanged, Zenon DEF FailureClock, IInv
  <2>2. r \in Locals /\ r.at <= now /\ r.stamp = loc[t].stamp /\ r.seen = loc[t].seen
    BY DEF Locals, IInv, SharedInv
  <2>3. Goto(t, "fail_store") /\ loc' = [loc EXCEPT ![t] = r]
    BY <1>6, Zenon DEF FailureClock
  <2>4. Knows("fail_store", ticket[t], r) /\ "fail_store" \in Labels
    BY <1>6, <2>2, Zenon DEF Knows, Labels, FailureClock, At
  <2> HIDE DEF r
  <2> QED
    BY <2>1, <2>2, <2>3, <2>4, GotoStep, Zenon
<1>7. CASE FailureStore(t)
  <2>1. SharedInv' /\ now' = now
    BY <1>7, Zenon DEF FailureStore, IInv, SharedInv, Configured, config, gauges
  <2>2. Knows("fail_cas", ticket[t], loc[t]) /\ "fail_cas" \in Labels
    BY <1>7, Zenon DEF Knows, Labels, FailureStore, At
  <2> QED
    BY <1>7, <2>1, <2>2, GotoStep, Zenon DEF FailureStore
<1>8. CASE FailureCas(t)
  <2>1. SharedInv' /\ now' = now
    BY <1>8, Zenon DEF FailureCas, Transition, IInv, SharedInv, CircuitState, Configured, config, gauges
  <2> QED
    BY <1>8, <2>1, ReturnStep, Zenon DEF FailureCas, Transition
<1> QED
  BY <1>1, <1>2, <1>3, <1>4, <1>5, <1>6, <1>7, <1>8, Zenon

\* The accesses of set_gauges and the second store of reconfigure preserve
\* the invariant.
LEMMA PublishIInv ==
  ASSUME IInv, NEW t \in Threads,
         GaugeLoad(t) \/ GaugeState(t) \/ GaugeAlive(t) \/ ReconfigureThreshold(t)
  PROVE  IInv'
<1> USE ThreadFacts
<1>1. CASE GaugeLoad(t)
  <2> DEFINE r == [loc[t] EXCEPT !.seen = state]
  <2>1. SharedInv' /\ now' = now
    BY <1>1, SharedUnchanged, Zenon DEF GaugeLoad, IInv
  <2>2. r \in Locals /\ r.at = loc[t].at /\ r.stamp = loc[t].stamp
    BY DEF Locals, IInv, SharedInv
  <2>3. Goto(t, "gauge_state") /\ loc' = [loc EXCEPT ![t] = r]
    BY <1>1, Zenon DEF GaugeLoad
  <2>4. Knows("gauge_state", ticket[t], r) /\ "gauge_state" \in Labels
    BY Zenon DEF Knows, Labels
  <2> HIDE DEF r
  <2> QED
    BY <2>1, <2>2, <2>3, <2>4, GotoStep, Zenon
<1>2. CASE GaugeState(t)
  <2>1. SharedInv' /\ now' = now
    BY <1>2, Zenon DEF GaugeState, IInv, SharedInv, Configured, atomics, config
  <2>2. Knows("gauge_alive", ticket[t], loc[t]) /\ "gauge_alive" \in Labels
    BY Zenon DEF Knows, Labels
  <2> QED
    BY <1>2, <2>1, <2>2, GotoStep, Zenon DEF GaugeState
<1>3. CASE GaugeAlive(t)
  <2>1. SharedInv' /\ now' = now
    BY <1>3, Zenon DEF GaugeAlive, Alive, IInv, SharedInv, Configured, atomics, config
  <2> QED
    BY <1>3, <2>1, ReturnStep, Zenon DEF GaugeAlive
<1>4. CASE ReconfigureThreshold(t)
  <2>1. loc[t].n \in Nat \ {0}
    BY <1>4, Zenon DEF ReconfigureThreshold, At, Knows
  <2>2. SharedInv' /\ now' = now
    BY <1>4, <2>1, Zenon DEF ReconfigureThreshold, IInv, SharedInv, Configured, atomics, gauges
  <2> QED
    BY <1>4, <2>2, ReturnStep, Zenon DEF ReconfigureThreshold
<1> QED
  BY <1>1, <1>2, <1>3, <1>4, Zenon

\* The clock only moves forward, so it preserves the invariant (now_millis).
LEMMA TickIInv ==
  ASSUME IInv, Tick
  PROVE  IInv'
<1>1. SharedInv'
  BY DEF Tick, IInv, SharedInv, Configured, atomics, config, gauges
<1>2. ASSUME NEW t \in Threads
      PROVE  loc'[t].at <= now' /\ loc'[t].stamp <= now' /\ Knows(pc'[t], ticket'[t], loc'[t])
  BY ThreadFacts DEF Tick, IInv, SharedInv, thread
<1> QED
  BY <1>1, <1>2, Zenon DEF Tick, IInv, thread

\* Every step, of any thread or of the clock, preserves the invariant.
LEMMA NextIInv ==
  ASSUME IInv, [Next]_vars
  PROVE  IInv'
<1>1. CASE Tick
  BY <1>1, TickIInv, Zenon
<1>2. ASSUME NEW t \in Threads, Call(t) \/ Advance(t)
      PROVE  IInv'
  BY <1>2, CallIInv, ClaimIInv, ReleaseIInv, RecordIInv, PublishIInv, Zenon DEF Advance
<1>3. CASE UNCHANGED vars
  BY <1>3, Zenon DEF vars, atomics, config, gauges, thread, IInv, SharedInv, Configured
<1> QED
  BY <1>1, <1>2, <1>3, Zenon DEF Next

-----------------------------------------------------------------------------
(* Theorems *)

\* IInv holds in every reachable state.
THEOREM Invariance == Spec => []IInv
BY InitIInv, NextIInv, PTL DEF Spec

\* Every variable keeps its type, and every configured value stays positive.
THEOREM TypeCorrectness == Spec => []TypeOK
<1>1. IInv => TypeOK
  BY Zenon DEF IInv, SharedInv, TypeOK
<1> QED
  BY <1>1, Invariance, PTL

\* No stamp is ahead of the clock, whatever the interleaving (now_millis,
\* claim_probe_slot, release, record_failure).
THEOREM StampsBehindClock == Spec => []NoStampAheadOfClock
<1>1. IInv => NoStampAheadOfClock
  BY Zenon DEF IInv, SharedInv, NoStampAheadOfClock
<1> QED
  BY <1>1, Invariance, PTL

\* A step of a thread sets the label of that thread only.
LEMMA MovesItself ==
  ASSUME IInv, NEW t \in Threads, Call(t) \/ Advance(t)
  PROVE  \A s \in Threads : s # t => pc'[s] = pc[s]
<1> USE DEF IInv
<1>1. CASE Call(t)
  BY <1>1, Zenon DEF Call, TryAcquire, Release, RecordSuccess, RecordFailure, Drop,
     HealthTick, Reconfigure, Goto, Return, PublishAndReturn, Transition
<1>2. CASE ClaimLoad(t) \/ ClaimClock(t) \/ ClaimCheck(t) \/ ClaimCas(t) \/
           HalfCas(t)
  BY <1>2, Zenon DEF ClaimLoad, ClaimClock, ClaimCheck, ClaimCas, HalfCas, Goto,
     Return, PublishAndReturn, Transition
<1>3. CASE ReleaseClock(t) \/ ReleaseLoad(t) \/ ReleaseState(t) \/ ReleaseLast(t)
           \/ ReleaseCap(t) \/ ReleaseArm(t)
  BY <1>3, Zenon DEF ReleaseClock, ReleaseLoad, ReleaseState, ReleaseLast, ReleaseCap,
     ReleaseArm, Goto, Return, PublishAndReturn, Transition
<1>4. CASE SuccessZero(t) \/ SuccessSwap(t) \/ SuccessReset(t)
  BY <1>4, Zenon DEF SuccessZero, SuccessSwap, SuccessReset, Goto, Return,
     PublishAndReturn, Transition
<1>5. CASE FailureAdd(t) \/ FailureCheck(t) \/ FailureClock(t) \/ FailureStore(t)
           \/ FailureCas(t)
  BY <1>5, Zenon DEF FailureAdd, FailureCheck, FailureClock, FailureStore, FailureCas,
     Goto, Return, PublishAndReturn, Transition
<1>6. CASE GaugeLoad(t) \/ GaugeState(t) \/ GaugeAlive(t) \/
           ReconfigureThreshold(t)
  BY <1>6, Zenon DEF GaugeLoad, GaugeState, GaugeAlive, ReconfigureThreshold, Goto,
     Return, PublishAndReturn, Transition
<1> QED
  BY <1>1, <1>2, <1>3, <1>4, <1>5, <1>6, Zenon DEF Advance

\* Only the exchange of release changes rearmed_at, and only the three
\* transitions change the state.
LEMMA WhoWrites ==
  ASSUME NEW t \in Threads, Call(t) \/ Advance(t)
  PROVE  /\ rearmedAt' # rearmedAt => ReleaseCap(t)
         /\ state' # state => HalfCas(t) \/ SuccessSwap(t) \/ FailureCas(t)
<1>1. CASE Call(t)
  BY <1>1, Zenon DEF Call, TryAcquire, Release, RecordSuccess, RecordFailure, Drop,
     HealthTick, Reconfigure, atomics
<1>2. CASE ClaimLoad(t) \/ ClaimClock(t) \/ ClaimCheck(t) \/ ClaimCas(t) \/
           HalfCas(t)
  BY <1>2, Zenon DEF ClaimLoad, ClaimClock, ClaimCheck, ClaimCas, HalfCas, atomics
<1>3. CASE ReleaseClock(t) \/ ReleaseLoad(t) \/ ReleaseState(t) \/ ReleaseLast(t)
           \/ ReleaseCap(t) \/ ReleaseArm(t)
  BY <1>3, Zenon DEF ReleaseClock, ReleaseLoad, ReleaseState, ReleaseLast, ReleaseCap,
     ReleaseArm, atomics
<1>4. CASE SuccessZero(t) \/ SuccessSwap(t) \/ SuccessReset(t)
  BY <1>4, Zenon DEF SuccessZero, SuccessSwap, SuccessReset, atomics
<1>5. CASE FailureAdd(t) \/ FailureCheck(t) \/ FailureClock(t) \/ FailureStore(t)
           \/ FailureCas(t)
  BY <1>5, Zenon DEF FailureAdd, FailureCheck, FailureClock, FailureStore, FailureCas,
     atomics
<1>6. CASE GaugeLoad(t) \/ GaugeState(t) \/ GaugeAlive(t) \/
           ReconfigureThreshold(t)
  BY <1>6, Zenon DEF GaugeLoad, GaugeState, GaugeAlive, ReconfigureThreshold, atomics
<1> QED
  BY <1>1, <1>2, <1>3, <1>4, <1>5, <1>6, Zenon DEF Advance

\* A thread that leaves the exchange of a claim has made it.
LEMMA LeavesClaimCas ==
  ASSUME NEW t \in Threads, Call(t) \/ Advance(t), pc[t] = "claim_cas"
  PROVE  ClaimCas(t)
<1>1. CASE Call(t)
  BY <1>1, Zenon DEF Call, TryAcquire, Release, RecordSuccess, RecordFailure, Drop,
     HealthTick, Reconfigure, At
<1>2. CASE ClaimLoad(t) \/ ClaimClock(t) \/ ClaimCheck(t) \/ ClaimCas(t) \/
           HalfCas(t)
  BY <1>2, Zenon DEF ClaimLoad, ClaimClock, ClaimCheck, HalfCas, At
<1>3. CASE ReleaseClock(t) \/ ReleaseLoad(t) \/ ReleaseState(t) \/ ReleaseLast(t)
           \/ ReleaseCap(t) \/ ReleaseArm(t)
  BY <1>3, Zenon DEF ReleaseClock, ReleaseLoad, ReleaseState, ReleaseLast, ReleaseCap,
     ReleaseArm, At
<1>4. CASE SuccessZero(t) \/ SuccessSwap(t) \/ SuccessReset(t)
  BY <1>4, Zenon DEF SuccessZero, SuccessSwap, SuccessReset, At
<1>5. CASE FailureAdd(t) \/ FailureCheck(t) \/ FailureClock(t) \/ FailureStore(t)
           \/ FailureCas(t)
  BY <1>5, Zenon DEF FailureAdd, FailureCheck, FailureClock, FailureStore, FailureCas,
     At
<1>6. CASE GaugeLoad(t) \/ GaugeState(t) \/ GaugeAlive(t) \/
           ReconfigureThreshold(t)
  BY <1>6, Zenon DEF GaugeLoad, GaugeState, GaugeAlive, ReconfigureThreshold, At
<1> QED
  BY <1>1, <1>2, <1>3, <1>4, <1>5, <1>6, Zenon DEF Advance

\* Which step leaves a label: a thread at claim_cas can only take ClaimCas,
\* and no other thread's step moves it.
LEMMA ClaimCasStep ==
  ASSUME IInv, Next, NEW t \in Threads, StepAt(t, "claim_cas")
  PROVE  ClaimCas(t)
<1>1. pc[t] = "claim_cas" /\ pc'[t] # "claim_cas"
  BY Zenon DEF StepAt, At
<1>2. ~Tick
  BY <1>1, Zenon DEF Tick, thread
<1>3. PICK s \in Threads : Call(s) \/ Advance(s)
  BY <1>2, Zenon DEF Next
<1>4. s = t
  BY <1>1, <1>3, MovesItself, Zenon
<1> QED
  BY <1>1, <1>3, <1>4, LeavesClaimCas, Zenon

\* A won probe slot moves opened_at on by a whole configured cooldown
\* (claim_probe_slot), for any interleaving of any number of threads.
THEOREM ProbeSlotsApart == Spec => SlotsAreACooldownApart
<1> DEFINE P == \A t \in Threads :
                  StepAt(t, "claim_cas") /\ pc'[t] \in {"half_cas", "held"}
                    => \E c \in Configs : openedAt' >= openedAt + c.cooldown
<1>1. ASSUME IInv, [Next]_vars
      PROVE  [P]_vars
  <2> SUFFICES ASSUME Next, NEW t \in Threads,
                      StepAt(t, "claim_cas"), pc'[t] \in {"half_cas", "held"}
               PROVE  \E c \in Configs : openedAt' >= openedAt + c.cooldown
    BY <1>1, Zenon
  <2>1. ClaimCas(t)
    BY <1>1, ClaimCasStep, Zenon
  <2>2. openedAt = loc[t].stamp /\ openedAt' = loc[t].at
    <3>1. CASE Return(t, "None")
      BY <1>1, <3>1, Zenon DEF Return, Rest, IInv
    <3> QED
      BY <2>1, <3>1, Zenon DEF ClaimCas
  <2>3. Configured(loc[t].cd) /\ loc[t].at >= loc[t].stamp + loc[t].cd
    BY <1>1, ThreadFacts, Zenon DEF StepAt, At, Knows
  <2> QED
    BY <2>2, <2>3, Zenon DEF Configured
<1> QED
  BY <1>1, Invariance, PTL DEF Spec, SlotsAreACooldownApart

\* Re-arms are stamped a configured cooldown apart (release).
THEOREM RearmsApart == Spec => RearmsAreACooldownApart
<1> DEFINE P == rearmedAt # Never => \E c \in Configs : rearmedAt' >= rearmedAt + c.cooldown
<1>1. ASSUME IInv, [Next]_vars
      PROVE  [P]_rearmedAt
  <2> SUFFICES ASSUME rearmedAt' # rearmedAt, rearmedAt # Never
               PROVE  \E c \in Configs : rearmedAt' >= rearmedAt + c.cooldown
    BY Zenon
  <2>1. PICK t \in Threads : ReleaseCap(t)
    <3>1. ~Tick /\ ~UNCHANGED vars
      BY Zenon DEF Tick, vars, atomics
    <3> QED
      BY <1>1, <3>1, WhoWrites, Zenon DEF Next
  <2>2. rearmedAt = loc[t].last /\ rearmedAt' = loc[t].at
    BY <2>1, Zenon DEF ReleaseCap
  <2>3. Configured(loc[t].cd) /\ loc[t].at >= loc[t].last + loc[t].cd
    BY <1>1, <2>1, <2>2, ThreadFacts, Zenon DEF ReleaseCap, At, Knows
  <2> QED
    BY <2>2, <2>3, Zenon DEF Configured
<1> QED
  BY <1>1, Invariance, PTL DEF Spec, RearmsAreACooldownApart

\* Only probes move an open or half-open circuit (record_success,
\* record_failure, try_acquire).
THEOREM ProbesMoveTheCircuit == Spec => OnlyProbesMoveAnOpenCircuit
<1> DEFINE P ==
      \/ state = "Closed" /\ state' = "Open"
      \/ /\ state = "Open" /\ state' = "HalfOpen"
         /\ \E t \in Threads : StepAt(t, "half_cas")
      \/ /\ state = "HalfOpen" /\ state' = "Open"
         /\ \E t \in Threads : StepAt(t, "fail_cas") /\ ticket[t] = "Probe"
      \/ /\ state # "Closed" /\ state' = "Closed"
         /\ \E t \in Threads : StepAt(t, "ok_swap") /\ ticket[t] = "Probe"
<1>1. ASSUME IInv, [Next]_vars
      PROVE  [P]_state
  <2> SUFFICES ASSUME state' # state
               PROVE  P
    BY Zenon
  <2>1. PICK t \in Threads : HalfCas(t) \/ SuccessSwap(t) \/ FailureCas(t)
    <3>1. ~Tick /\ ~UNCHANGED vars
      BY Zenon DEF Tick, vars, atomics
    <3> QED
      BY <1>1, <3>1, WhoWrites, Zenon DEF Next
  <2> USE <1>1, ThreadFacts
  <2>2. CASE HalfCas(t)
    <3>1. state = "Open" /\ state' = "HalfOpen" /\ PublishAndReturn(t, "Probe")
      BY <2>2, Zenon DEF HalfCas, Transition
    <3>2. pc[t] = "half_cas" /\ pc'[t] # "half_cas"
      BY <2>2, <3>1, Zenon DEF HalfCas, At, PublishAndReturn, Rest, IInv
    <3> QED
      BY <3>1, <3>2, Zenon DEF StepAt, At
  <2>3. CASE SuccessSwap(t)
    <3>1. state # "Closed" /\ state' = "Closed" /\ PublishAndReturn(t, "None")
      BY <2>3, Zenon DEF SuccessSwap
    <3>2. pc[t] = "ok_swap" /\ pc'[t] # "ok_swap"
      BY <2>3, <3>1, Zenon DEF SuccessSwap, At, PublishAndReturn, Rest, IInv
    <3>3. ticket[t] = "Probe"
      BY <3>2, Zenon DEF Knows
    <3> QED
      BY <3>1, <3>2, <3>3, Zenon DEF StepAt, At
  <2>4. CASE FailureCas(t)
    <3>1. state = loc[t].seen /\ state' = "Open" /\ PublishAndReturn(t, "None")
      BY <2>4, Zenon DEF FailureCas, Transition
    <3>2. pc[t] = "fail_cas" /\ pc'[t] # "fail_cas"
      BY <2>4, <3>1, Zenon DEF FailureCas, At, PublishAndReturn, Rest, IInv
    <3>3. state = "HalfOpen" => ticket[t] = "Probe"
      BY <3>1, <3>2, Zenon DEF Knows
    <3>4. state \in {"Closed", "HalfOpen"}
      BY <3>1, Zenon DEF IInv, SharedInv, CircuitState
    <3> QED
      BY <3>1, <3>2, <3>3, <3>4, Zenon DEF StepAt, At
  <2> QED
    BY <2>1, <2>2, <2>3, <2>4, Zenon
<1> QED
  BY <1>1, Invariance, PTL DEF Spec, OnlyProbesMoveAnOpenCircuit

-----------------------------------------------------------------------------
(* The window of claim_probe_slot in real time *)

\* A thread at label l, whose call began at b, has read the clock at since.
DatedSince(l, at, b) == l \in {"claim_check", "claim_cas", "fail_store"} => at >= b

TimelyInv ==
  /\ IInv
  /\ began \in [Threads -> Nat]
  /\ lastSlot \in Nat \cup {Never}
  /\ lastSlot # Never => lastSlot <= now /\ lastSlot <= openedAt + MaxStall
  /\ \A t \in Threads :
       /\ InCall(t) => began[t] <= now /\ now <= began[t] + MaxStall
       /\ DatedSince(pc[t], loc[t].at, began[t])

\* A new breaker satisfies it.
LEMMA TimelyInitInv == TimelyInit => TimelyInv
<1> SUFFICES ASSUME TimelyInit PROVE TimelyInv
  BY Zenon
<1>1. IInv /\ pc = [t \in Threads |-> "idle"]
  BY InitIInv, Zenon DEF TimelyInit, Init
<1> QED
  BY <1>1, Zenon DEF TimelyInit, TimelyInv, InCall, DatedSince

\* A step leaves the clock and the other threads' locals alone, and the clock
\* it may act on later was read in this step or earlier in the same call.
LEMMA StepDates ==
  ASSUME IInv, NEW t \in Threads, Call(t) \/ Advance(t)
  PROVE  /\ now' = now
         /\ \A s \in Threads : s # t => loc'[s] = loc[s]
         /\ pc'[t] \in {"claim_check", "claim_cas", "fail_store"} =>
              /\ InCall(t)
              /\ \/ loc'[t].at = now
                 \/ pc[t] = "claim_check" /\ loc'[t].at = loc[t].at
<1> USE DEF IInv, Locals, At, Goto, Return, PublishAndReturn, Transition, Rest, InCall
<1>1. CASE Call(t)
  BY <1>1 DEF Call, TryAcquire, Release, RecordSuccess, RecordFailure, Drop,
     HealthTick, Reconfigure
<1>2. CASE ClaimLoad(t) \/ ClaimClock(t) \/ ClaimCheck(t)
  BY <1>2 DEF ClaimLoad, ClaimClock, ClaimCheck
<1>3. CASE ClaimCas(t) \/ HalfCas(t)
  BY <1>3, Zenon DEF ClaimCas, HalfCas
<1>4. CASE ReleaseClock(t) \/ ReleaseLoad(t) \/ ReleaseState(t) \/ ReleaseLast(t)
           \/ ReleaseCap(t) \/ ReleaseArm(t)
  BY <1>4, Zenon DEF ReleaseClock, ReleaseLoad, ReleaseState, ReleaseLast, ReleaseCap, ReleaseArm
<1>5. CASE SuccessZero(t) \/ SuccessSwap(t) \/ SuccessReset(t)
  BY <1>5, Zenon DEF SuccessZero, SuccessSwap, SuccessReset
<1>6. CASE FailureAdd(t) \/ FailureCheck(t) \/ FailureClock(t) \/ FailureStore(t)
           \/ FailureCas(t)
  BY <1>6 DEF FailureAdd, FailureCheck, FailureClock, FailureStore, FailureCas
<1>7. CASE GaugeLoad(t) \/ GaugeState(t) \/ GaugeAlive(t) \/ ReconfigureThreshold(t)
  BY <1>7 DEF GaugeLoad, GaugeState, GaugeAlive, ReconfigureThreshold
<1> QED
  BY <1>1, <1>2, <1>3, <1>4, <1>5, <1>6, <1>7, ZenonT(40) DEF Advance

\* Only three accesses store opened_at.
LEMMA WhoStamps ==
  ASSUME NEW t \in Threads, Call(t) \/ Advance(t), openedAt' # openedAt
  PROVE  ClaimCas(t) \/ ReleaseArm(t) \/ FailureStore(t)
<1>1. ~Call(t)
  BY Zenon DEF Call, TryAcquire, Release, RecordSuccess, RecordFailure, Drop,
     HealthTick, Reconfigure, atomics
<1>2. ~(ClaimLoad(t) \/ ClaimClock(t) \/ ClaimCheck(t) \/ HalfCas(t))
  BY Zenon DEF ClaimLoad, ClaimClock, ClaimCheck, HalfCas, atomics
<1>3. ~(ReleaseClock(t) \/ ReleaseLoad(t) \/ ReleaseState(t) \/ ReleaseLast(t)
        \/ ReleaseCap(t))
  BY Zenon DEF ReleaseClock, ReleaseLoad, ReleaseState, ReleaseLast, ReleaseCap, atomics
<1>4. ~(SuccessZero(t) \/ SuccessSwap(t) \/ SuccessReset(t))
  BY Zenon DEF SuccessZero, SuccessSwap, SuccessReset
<1>5. ~(FailureAdd(t) \/ FailureCheck(t) \/ FailureClock(t) \/ FailureCas(t))
  BY Zenon DEF FailureAdd, FailureCheck, FailureClock, FailureCas, atomics
<1>6. ~(GaugeLoad(t) \/ GaugeState(t) \/ GaugeAlive(t) \/ ReconfigureThreshold(t))
  BY Zenon DEF GaugeLoad, GaugeState, GaugeAlive, ReconfigureThreshold, atomics
<1> QED
  BY <1>1, <1>2, <1>3, <1>4, <1>5, <1>6, Zenon DEF Advance

\* A won slot is stamped with the clock its claim read, a cooldown after the
\* stamp it found.
LEMMA SlotStamp ==
  ASSUME IInv, NEW t \in Threads, Call(t) \/ Advance(t), SlotWon(t)
  PROVE  /\ pc[t] = "claim_cas" /\ openedAt' = loc[t].at
         /\ loc[t].at >= openedAt + loc[t].cd
<1>1. pc[t] = "claim_cas"
  BY Zenon DEF SlotWon, StepAt, At
<1>2. ClaimCas(t)
  BY <1>1, LeavesClaimCas, Zenon
<1>3. openedAt = loc[t].stamp /\ openedAt' = loc[t].at
  <2>1. CASE Return(t, "None")
    BY <2>1, Zenon DEF Return, Rest, IInv, SlotWon
  <2> QED
    BY <1>2, <2>1, Zenon DEF ClaimCas
<1> QED
  BY <1>1, <1>3, ThreadFacts, Zenon DEF Knows

\* A step of a thread preserves the invariant.
LEMMA TimelyStepInv ==
  ASSUME TimelyInv, NEW t \in Threads, TimelyStep(t)
  PROVE  TimelyInv'
<1>1. /\ IInv /\ IInv' /\ now \in Nat /\ openedAt \in Nat /\ openedAt' \in Nat
      /\ openedAt' <= now' /\ MaxStall \in Nat /\ Never \notin Nat
  BY NextIInv, StallAssumption, ConstantsAssumption, Zenon
     DEF TimelyInv, TimelyStep, Next, IInv, SharedInv
<1>2. /\ now' = now
      /\ \A s \in Threads : s # t => loc'[s] = loc[s] /\ pc'[s] = pc[s]
      /\ pc'[t] \in {"claim_check", "claim_cas", "fail_store"} =>
           /\ InCall(t)
           /\ loc'[t].at = now \/ (pc[t] = "claim_check" /\ loc'[t].at = loc[t].at)
  BY <1>1, StepDates, MovesItself, Zenon DEF TimelyStep
<1>3. /\ began' \in [Threads -> Nat]
      /\ \A s \in Threads : s # t => began'[s] = began[s]
      /\ InCall(t)' => began'[t] = IF InCall(t) THEN began[t] ELSE now
  BY <1>1, Zenon DEF TimelyInv, TimelyStep
<1>4. ASSUME NEW s \in Threads
      PROVE  /\ InCall(s)' => began'[s] <= now' /\ now' <= began'[s] + MaxStall
             /\ DatedSince(pc'[s], loc'[s].at, began'[s])
  <2>1. CASE s # t
    BY <1>2, <1>3, <2>1, Zenon DEF TimelyInv, InCall
  <2>2. CASE s = t
    <3>1. InCall(t)' => began'[t] <= now' /\ now' <= began'[t] + MaxStall
      BY <1>1, <1>2, <1>3 DEF TimelyInv
    <3>2. ASSUME pc'[t] \in {"claim_check", "claim_cas", "fail_store"}
          PROVE  loc'[t].at >= began'[t]
      <4>1. InCall(t) /\ InCall(t)' /\ began'[t] = began[t] /\ began[t] <= now
        BY <1>2, <1>3, <3>2, Zenon DEF InCall, TimelyInv
      <4> QED
        BY <1>2, <3>2, <4>1, Zenon DEF TimelyInv, DatedSince
    <3> QED
      BY <2>2, <3>1, <3>2, Zenon DEF DatedSince
  <2> QED
    BY <2>1, <2>2, Zenon
<1>5. /\ lastSlot' \in Nat \cup {Never}
      /\ lastSlot' # Never => lastSlot' <= now' /\ lastSlot' <= openedAt' + MaxStall
  <2>1. CASE SlotWon(t)
    <3>1. lastSlot' = now /\ pc[t] = "claim_cas" /\ openedAt' = loc[t].at
      BY <1>1, <2>1, SlotStamp, Zenon DEF TimelyStep
    <3>2. loc[t].at >= began[t] /\ now <= began[t] + MaxStall /\ began[t] \in Nat
      BY <3>1, Zenon DEF TimelyInv, DatedSince, InCall
    <3> QED
      BY <1>1, <1>2, <3>1, <3>2
  <2>2. CASE ~SlotWon(t) /\ Rearmed(t)
    BY <2>2, Zenon DEF TimelyStep
  <2>3. CASE ~SlotWon(t) /\ ~Rearmed(t)
    <3>1. lastSlot' = lastSlot
      BY <2>3, Zenon DEF TimelyStep
    <3>2. CASE openedAt' = openedAt
      BY <1>2, <3>1, <3>2, Zenon DEF TimelyInv
    <3>3. ~(ClaimCas(t) /\ openedAt' # openedAt)
      <4> SUFFICES ASSUME ClaimCas(t), openedAt' # openedAt PROVE FALSE
        BY Zenon
      <4>1. pc[t] = "claim_cas" /\ (Goto(t, "half_cas") \/ Return(t, "Probe"))
        BY Zenon DEF ClaimCas, At
      <4>2. pc'[t] \in {"half_cas", "held"}
        BY <1>1, <4>1, Zenon DEF Goto, Return, Rest, IInv
      <4> QED
        BY <2>3, <4>1, <4>2, Zenon DEF SlotWon, StepAt, At
    <3>4. ~(ReleaseArm(t) /\ openedAt' # openedAt)
      <4> SUFFICES ASSUME ReleaseArm(t), openedAt' # openedAt PROVE FALSE
        BY Zenon
      <4>1. pc[t] = "rel_arm" /\ openedAt = loc[t].stamp /\ Return(t, "None")
        BY Zenon DEF ReleaseArm, At
      <4>2. pc'[t] = "idle"
        BY <1>1, <4>1, Zenon DEF Return, Rest, IInv
      <4> QED
        BY <2>3, <4>1, <4>2, Zenon DEF Rearmed, StepAt, At
    <3>5. CASE FailureStore(t)
      <4>1. pc[t] = "fail_store" /\ openedAt' = loc[t].at
        BY <3>5, Zenon DEF FailureStore, At
      <4>2. loc[t].at >= began[t] /\ now <= began[t] + MaxStall /\ began[t] \in Nat
        BY <4>1, Zenon DEF TimelyInv, DatedSince, InCall
      <4> QED
        BY <1>1, <1>2, <3>1, <4>1, <4>2 DEF TimelyInv
    <3> QED
      BY <3>2, <3>3, <3>4, <3>5, WhoStamps, Zenon DEF TimelyStep
  <2> QED
    BY <2>1, <2>2, <2>3, Zenon
<1> QED
  BY <1>1, <1>3, <1>4, <1>5, Zenon DEF TimelyInv

\* So does the clock, which waits for a call that has stalled for MaxStall.
LEMMA TimelyNextInv == TimelyInv /\ [TimelyNext]_timelyVars => TimelyInv'
<1> SUFFICES ASSUME TimelyInv, [TimelyNext]_timelyVars PROVE TimelyInv'
  BY Zenon
<1>1. CASE TimelyTick
  <2>1. /\ IInv' /\ now \in Nat /\ now' = now + 1
        /\ UNCHANGED <<openedAt, pc, loc, began, lastSlot>>
    BY <1>1, TickIInv, Zenon DEF TimelyTick, Tick, TimelyInv, IInv, SharedInv, atomics, thread
  <2>2. ASSUME NEW t \in Threads, InCall(t)'
        PROVE  began'[t] <= now' /\ now' <= began'[t] + MaxStall
    BY <1>1, <2>1, <2>2, StallAssumption DEF TimelyTick, TimelyInv, InCall
  <2>3. lastSlot' # Never => lastSlot' <= now' /\ lastSlot' <= openedAt' + MaxStall
    BY <2>1 DEF TimelyInv
  <2> QED
    BY <2>1, <2>2, <2>3, Zenon DEF TimelyInv, DatedSince
<1>2. CASE UNCHANGED timelyVars
  <2>1. IInv' /\ UNCHANGED <<now, openedAt, pc, loc, began, lastSlot>>
    BY <1>2, NextIInv, Zenon DEF TimelyInv, timelyVars, vars, atomics, thread
  <2> QED
    BY <2>1, Zenon DEF TimelyInv, InCall, DatedSince
<1> QED
  BY <1>1, <1>2, TimelyStepInv, Zenon DEF TimelyNext

\* Two probe slots are won a cooldown apart in real time, less the time a call
\* may stall, for any interleaving of any number of threads and reloads
\* (claim_probe_slot).
THEOREM ProbesApartInRealTime == TimelySpec => ProbesAreACooldownApart
<1> DEFINE P == \A t \in Threads :
                  SlotWon(t) /\ lastSlot # Never => now - lastSlot >= loc[t].cd - MaxStall
<1>1. ASSUME TimelyInv, [TimelyNext]_timelyVars
      PROVE  [P]_timelyVars
  <2> SUFFICES ASSUME TimelyNext, NEW t \in Threads, SlotWon(t), lastSlot # Never
               PROVE  now - lastSlot >= loc[t].cd - MaxStall
    BY <1>1, Zenon
  <2>1. pc[t] = "claim_cas" /\ pc'[t] # "claim_cas"
    BY Zenon DEF SlotWon, StepAt, At
  <2>2. ~Tick /\ IInv
    BY <1>1, <2>1, Zenon DEF Tick, thread, TimelyInv
  <2>3. PICK s \in Threads : Call(s) \/ Advance(s)
    BY <2>2, Zenon DEF TimelyNext, TimelyTick, TimelyStep
  <2>4. s = t
    BY <2>1, <2>2, <2>3, MovesItself, Zenon
  <2>5. loc[t].at >= openedAt + loc[t].cd /\ loc[t].at <= now
    BY <2>2, <2>3, <2>4, SlotStamp, ThreadFacts, Zenon
  <2>6. /\ loc[t].at \in Nat /\ loc[t].cd \in Nat /\ openedAt \in Nat /\ now \in Nat
        /\ MaxStall \in Nat /\ lastSlot \in Nat /\ lastSlot <= openedAt + MaxStall
    BY <1>1, <2>2, ThreadFacts, StallAssumption, Zenon DEF TimelyInv, IInv, SharedInv
  <2> QED
    BY <2>5, <2>6
<1> QED
  BY <1>1, TimelyInitInv, TimelyNextInv, PTL DEF TimelySpec, ProbesAreACooldownApart

-----------------------------------------------------------------------------
(* The inductive invariant: what a thread read is still so *)

Users == Callers \cup Checkers

\* Which threads are at label l with ticket tk.
Belongs(t, l, tk) ==
  /\ l = "idle" => tk = "None"
  /\ l = "held" => tk # "None" /\ t \in Users
  /\ l \in {"claim_load", "claim_clock", "claim_check", "claim_cas", "half_cas"} =>
       t \in Callers /\ tk = "None"
  /\ l \in {"rel_clock", "rel_load", "rel_state", "rel_last", "rel_cap", "rel_arm"} =>
       t \in Callers /\ tk = "Probe"
  /\ l \in {"ok_zero", "ok_swap"} => t \in Users /\ tk = "Probe"
  /\ l = "ok_reset" => t \in Users /\ tk = "Normal"
  /\ l \in {"fail_add", "fail_check", "fail_clock", "fail_store", "fail_cas"} =>
       t \in Users /\ tk # "None"
  /\ l \in {"gauge_load", "gauge_state", "gauge_alive"} => t \in Users \/ tk = "None"
  /\ l = "conf_threshold" => tk = "None"

\* The locals r of a thread at label l are what the shared variables hold.
Fresh(l, r) ==
  /\ l \in {"claim_load", "claim_clock", "claim_check", "claim_cas"} =>
       r.seen = state /\ state # "Closed"
  /\ l \in {"claim_clock", "claim_check", "claim_cas"} => r.stamp = openedAt
  /\ l \in {"claim_check", "claim_cas"} => r.at = now
  /\ l = "claim_cas" => now - openedAt >= cooldown
  /\ l = "half_cas" => state = "Open" /\ openedAt = now
  /\ l \in {"rel_clock", "rel_load", "rel_state", "rel_last", "rel_cap", "rel_arm"} =>
       r.cd = cooldown
  /\ l \in {"rel_load", "rel_state", "rel_last", "rel_cap", "rel_arm"} => r.at = now
  /\ l \in {"rel_state", "rel_last", "rel_cap", "rel_arm"} => r.stamp = openedAt
  /\ l \in {"rel_last", "rel_cap"} => state = "HalfOpen"
  /\ l = "rel_cap" => r.last = rearmedAt /\ ~RearmTooSoon(now, rearmedAt, cooldown)
  /\ l \in {"ok_zero", "ok_swap"} => state # "Closed"
  /\ l = "ok_reset" => state = "Closed"
  /\ l \in {"fail_add", "fail_check"} => state = "Closed"
  /\ l = "fail_check" => r.n = failures
  /\ l \in {"fail_clock", "fail_store", "fail_cas"} => r.seen = state
  /\ l \in {"fail_store", "fail_cas"} => r.at = now
  /\ l = "fail_cas" => openedAt = now

Alone == \A s, t \in Threads : InCall(s) /\ InCall(t) => s = t

SequentialInv ==
  /\ IInv
  /\ Alone
  /\ \A t \in Threads : Belongs(t, pc[t], ticket[t]) /\ Fresh(pc[t], loc[t])

-----------------------------------------------------------------------------
(* The mapping, when at most one thread is inside a call *)

\* No thread but t is inside a call.
Only(t) == \A s \in Threads \ {t} : ~InCall(s)

\* Circuit's state is a matter of that thread's label and locals.
MapOf(t) ==
  /\ MappedCircuit = IF Opening(t) THEN "Open"
                     ELSE IF At(t, "half_cas") THEN "HalfOpen"
                     ELSE IF At(t, "ok_swap") THEN "Closed" ELSE state
  /\ MappedAge = IF Opening(t) THEN 0
                 ELSE IF At(t, "rel_arm") THEN Age(SaturatingSub(loc[t].at, loc[t].cd))
                 ELSE Age(openedAt)
  /\ MappedThreshold = IF At(t, "conf_threshold") THEN loc[t].n ELSE threshold
  /\ \A s \in Threads \ {t} : MappedTicket(s) = ticket[s]

\* With one thread inside a call, that thread's label decides the mapping.
LEMMA MapIsLocal == \A t \in Threads : IInv /\ Only(t) => MapOf(t)
<1> SUFFICES ASSUME NEW t \in Threads, IInv, Only(t) PROVE MapOf(t)
  BY Zenon
<1>1. \A s \in Threads \ {t} : /\ ~Opening(s) /\ ~Effective(s)
                               /\ ~At(s, "half_cas") /\ ~At(s, "ok_swap")
                               /\ ~At(s, "rel_arm") /\ ~At(s, "conf_threshold")
  BY Zenon DEF Only, InCall, Opening, Effective, At
<1>2. /\ (\E s \in Threads : Opening(s)) <=> Opening(t)
      /\ (\E s \in Threads : At(s, "half_cas")) <=> At(t, "half_cas")
      /\ (\E s \in Threads : At(s, "ok_swap")) <=> At(t, "ok_swap")
      /\ (\E s \in Threads : At(s, "rel_arm")) <=> At(t, "rel_arm")
      /\ (\E s \in Threads : At(s, "conf_threshold")) <=> At(t, "conf_threshold")
  BY <1>1, Zenon
<1>3. MappedCircuit = IF Opening(t) THEN "Open"
                      ELSE IF At(t, "half_cas") THEN "HalfOpen"
                      ELSE IF At(t, "ok_swap") THEN "Closed" ELSE state
  <2>1. /\ ~(Opening(t) /\ At(t, "half_cas"))
        /\ ~(Opening(t) /\ At(t, "ok_swap"))
        /\ ~(At(t, "half_cas") /\ At(t, "ok_swap"))
    BY Zenon DEF Opening, At
  <2>2. QED
    BY <1>2, <2>1, Zenon DEF MappedCircuit
<1>4. MappedAge = IF Opening(t) THEN 0
                  ELSE IF At(t, "rel_arm") THEN Age(SaturatingSub(loc[t].at, loc[t].cd))
                  ELSE Age(openedAt)
  <2> DEFINE a == Age(SaturatingSub(loc[t].at, loc[t].cd))
  <2>1. a \in 0..Cap
    <3>1. /\ loc[t].at \in Nat /\ loc[t].cd \in Nat /\ loc[t].at <= now /\ now \in Nat
      BY ThreadFacts, Zenon DEF IInv, SharedInv
    <3>2. SaturatingSub(loc[t].at, loc[t].cd) \in 0..now
      BY <3>1 DEF SaturatingSub
    <3>3. QED
      BY <3>1, <3>2, SequentialAssumption DEF Age
  <2> HIDE DEF a
  <2>2. At(t, "rel_arm") =>
          (CHOOSE b \in 0..Cap : \E s \in Threads :
             At(s, "rel_arm") /\ b = Age(SaturatingSub(loc[s].at, loc[s].cd))) = a
    BY <1>1, <2>1, Zenon DEF a
  <2>3. QED
    BY <1>2, <2>2, Zenon DEF MappedAge, a
<1>5. MappedThreshold = IF At(t, "conf_threshold") THEN loc[t].n ELSE threshold
  <2>1. At(t, "conf_threshold") =>
          (CHOOSE n \in {loc[s].n : s \in Threads} : \E s \in Threads :
             At(s, "conf_threshold") /\ n = loc[s].n) = loc[t].n
    BY <1>1, Zenon
  <2>2. QED
    BY <1>2, <2>1, Zenon DEF MappedThreshold
<1>6. \A s \in Threads \ {t} : MappedTicket(s) = ticket[s]
  BY <1>1, Zenon DEF MappedTicket
<1>7. QED
  BY <1>3, <1>4, <1>5, <1>6, Zenon DEF MapOf

\* The same, after a step.
LEMMA MapIsLocalAfter == (\A t \in Threads : IInv /\ Only(t) => MapOf(t))'
BY MapIsLocal, PTL

\* The labels of a call that has had no effect yet, or all of it.
Plain(t) ==
  pc[t] \notin {"fail_check", "fail_clock", "fail_store", "fail_cas",
               "half_cas", "ok_swap", "rel_arm", "conf_threshold"}

\* There Circuit's state is the breaker's.
LEMMA PlainMap ==
  \A t \in Threads : IInv /\ Only(t) /\ Plain(t) =>
    /\ MappedCircuit = state
    /\ MappedAge = Age(openedAt)
    /\ MappedThreshold = threshold
    /\ MappedTicket(t) = ticket[t]
BY MapIsLocal, Zenon DEF MapOf, Plain, Opening, Effective, At, MappedTicket

\* The same, after a step.
LEMMA PlainMapAfter ==
  (\A t \in Threads : IInv /\ Only(t) /\ Plain(t) =>
    /\ MappedCircuit = state
    /\ MappedAge = Age(openedAt)
    /\ MappedThreshold = threshold
    /\ MappedTicket(t) = ticket[t])'
BY PlainMap, PTL

Frame(t) == \A s \in Threads \ {t} : pc'[s] = pc[s] /\ ticket'[s] = ticket[s]

\* The invariant asks something of the thread that moves only.
LEMMA OneMoves ==
  ASSUME SequentialInv, IInv', NEW t \in Threads, Only(t), Frame(t),
         Belongs(t, pc'[t], ticket'[t]), Fresh(pc[t], loc[t])'
  PROVE  SequentialInv' /\ Only(t)'
<1>1. Only(t)'
  BY Zenon DEF Only, Frame, InCall
<1>2. Alone'
  BY <1>1, Zenon DEF Alone, Only
<1>3. ASSUME NEW s \in Threads \ {t}
      PROVE  Belongs(s, pc'[s], ticket'[s]) /\ Fresh(pc[s], loc[s])'
  <2>1. pc'[s] = pc[s] /\ ticket'[s] = ticket[s] /\ pc[s] \in {"idle", "held"}
    BY Zenon DEF Frame, Only, InCall
  <2>2. Belongs(s, pc[s], ticket[s])
    BY Zenon DEF SequentialInv
  <2>3. Fresh(pc[s], loc[s])'
    BY <2>1, Zenon DEF Fresh
  <2>4. QED
    BY <2>1, <2>2, <2>3, Zenon
<1>4. ASSUME NEW s \in Threads
      PROVE  Belongs(s, pc'[s], ticket'[s]) /\ Fresh(pc[s], loc[s])'
  BY <1>3, Zenon
<1>5. QED
  BY <1>1, <1>2, <1>4, Zenon DEF SequentialInv

\* Circuit's view of the tickets.
CircuitTickets == [s \in Callers \cup Checkers |-> MappedTicket(s)]

\* Nobody else's ticket moves.
LEMMA TicketMoves ==
  ASSUME SequentialInv, IInv', NEW t \in Threads, Only(t), Only(t)', Frame(t)
  PROVE  /\ CircuitTickets' = [CircuitTickets EXCEPT ![t] = MappedTicket(t)']
         /\ MappedTicket(t)' = MappedTicket(t) => CircuitTickets' = CircuitTickets
<1>1. \A s \in Threads \ {t} : MappedTicket(s)' = MappedTicket(s)
  BY MapIsLocal, MapIsLocalAfter, Zenon DEF MapOf, Frame, SequentialInv
<1>2. \A s \in Callers \cup Checkers : s \in Threads
  BY Zenon DEF Threads
<1>3. QED
  BY <1>1, <1>2, Zenon DEF CircuitTickets

\* A step that Circuit does not see.
LEMMA Unseen ==
  ASSUME SequentialInv, IInv', NEW t \in Threads, Only(t), Only(t)', Frame(t),
         UNCHANGED <<failures, rearmedAt, now, cooldown>>,
         MappedCircuit' = MappedCircuit, MappedAge' = MappedAge,
         MappedThreshold' = MappedThreshold, MappedTicket(t)' = MappedTicket(t)
  PROVE  UNCHANGED C!cvars
<1>1. CircuitTickets' = CircuitTickets
  BY TicketMoves, Zenon
<1>2. Age(rearmedAt)' = Age(rearmedAt) /\ Age(0)' = Age(0)
  BY Zenon DEF Age
<1>3. QED
  BY <1>1, <1>2, Zenon DEF C!cvars, C!times, C!config, CircuitTickets

\* A thread that only reads, before its call takes effect or after.
LEMMA PlainUnseen ==
  ASSUME SequentialInv, IInv', NEW t \in Threads, Only(t), Only(t)', Frame(t),
         Plain(t), Plain(t)', ticket'[t] = ticket[t],
         UNCHANGED <<state, failures, openedAt, rearmedAt, now, cooldown, threshold>>
  PROVE  UNCHANGED C!cvars
<1>1. /\ MappedCircuit = state /\ MappedAge = Age(openedAt)
      /\ MappedThreshold = threshold /\ MappedTicket(t) = ticket[t]
  BY PlainMap, Zenon DEF SequentialInv
<1>2. /\ MappedCircuit' = state' /\ MappedAge' = Age(openedAt)'
      /\ MappedThreshold' = threshold' /\ MappedTicket(t)' = ticket'[t]
  BY PlainMapAfter, Zenon
<1>3. Age(openedAt)' = Age(openedAt)
  BY Zenon DEF Age
<1>4. QED
  BY <1>1, <1>2, <1>3, Unseen, Zenon

\* A call goes on to its next access.
LEMMA Goes ==
  ASSUME SequentialInv, IInv', NEW t \in Threads, Only(t), NEW l \in Labels,
         Goto(t, l), Belongs(t, l, ticket[t]),
         pc'[t] = l /\ ticket'[t] = ticket[t] => Fresh(pc[t], loc[t])'
  PROVE  /\ SequentialInv' /\ Only(t)' /\ Frame(t)
         /\ pc'[t] = l /\ ticket'[t] = ticket[t]
<1>1. pc'[t] = l /\ ticket'[t] = ticket[t] /\ Frame(t)
  BY Zenon DEF Goto, SequentialInv, IInv, Frame
<1>2. QED
  BY <1>1, OneMoves, Zenon

\* A call returns.
LEMMA Rests ==
  ASSUME SequentialInv, IInv', NEW t \in Threads, Only(t),
         NEW tk \in Admission \cup {"None"}, tk = "None" \/ t \in Users,
         Return(t, tk) \/ PublishAndReturn(t, tk)
  PROVE  /\ SequentialInv' /\ Only(t)' /\ Frame(t) /\ Plain(t)' /\ ticket'[t] = tk
         /\ MappedCircuit' = state' /\ MappedAge' = Age(openedAt)'
         /\ MappedThreshold' = threshold' /\ MappedTicket(t)' = tk
         /\ CircuitTickets' = [CircuitTickets EXCEPT ![t] = tk]
<1>1. /\ Frame(t) /\ ticket'[t] = tk
      /\ pc'[t] \in {"gauge_load", Rest(tk)}
  BY Zenon DEF Return, PublishAndReturn, SequentialInv, IInv, Frame
<1>2. pc'[t] \in {"gauge_load", "idle", "held"} /\ Belongs(t, pc'[t], ticket'[t])
  BY <1>1, Zenon DEF Rest, Belongs
<1>3. Fresh(pc[t], loc[t])' /\ Plain(t)'
  BY <1>2, Zenon DEF Fresh, Plain
<1>4. SequentialInv' /\ Only(t)'
  BY <1>1, <1>2, <1>3, OneMoves, Zenon
<1>5. /\ MappedCircuit' = state' /\ MappedAge' = Age(openedAt)'
      /\ MappedThreshold' = threshold' /\ MappedTicket(t)' = ticket'[t]
  BY <1>3, <1>4, PlainMapAfter, Zenon
<1>6. QED
  BY <1>1, <1>3, <1>4, <1>5, TicketMoves, Zenon

-----------------------------------------------------------------------------
(* The steps: each keeps the invariant, and is a step of Circuit or none *)

Refines == SequentialInv' /\ [C!CircuitNext]_(C!cvars)

\* What a step that leaves the clock and the count alone does not show.
LEMMA SameAges ==
  ASSUME UNCHANGED now
  PROVE  /\ Age(0)' = Age(0)
         /\ UNCHANGED rearmedAt => Age(rearmedAt)' = Age(rearmedAt)
         /\ UNCHANGED openedAt => Age(openedAt)' = Age(openedAt)
BY Zenon DEF Age

\* A thread that only reads and goes on shows Circuit nothing.
LEMMA Reads ==
  ASSUME SequentialInv, IInv', NEW t \in Threads, Only(t), Plain(t),
         NEW l \in Labels \ {"fail_check", "fail_clock", "fail_store", "fail_cas",
                            "half_cas", "ok_swap", "rel_arm", "conf_threshold"},
         Goto(t, l), Belongs(t, l, ticket[t]), Fresh(l, loc[t])',
         UNCHANGED <<state, failures, openedAt, rearmedAt, now, cooldown, threshold>>
  PROVE  Refines
<1>1. SequentialInv' /\ Only(t)' /\ Frame(t) /\ pc'[t] = l /\ ticket'[t] = ticket[t]
  BY Goes, Zenon
<1>2. QED
  BY <1>1, PlainUnseen, Zenon DEF Refines, Plain

\* Neither does one that returns with the ticket it had.
LEMMA ReturnsAsItCame ==
  ASSUME SequentialInv, IInv', NEW t \in Threads, Only(t), Plain(t),
         Return(t, ticket[t]), ticket[t] = "None" \/ t \in Users,
         UNCHANGED <<state, failures, openedAt, rearmedAt, now, cooldown, threshold>>
  PROVE  Refines
<1>1. ticket[t] \in Admission \cup {"None"}
  BY Zenon DEF SequentialInv, IInv
<1>2. SequentialInv' /\ Only(t)' /\ Frame(t) /\ Plain(t)' /\ ticket'[t] = ticket[t]
  BY <1>1, Rests, Zenon
<1>3. QED
  BY <1>2, PlainUnseen, Zenon DEF Refines

\* try_acquire in a closed circuit is Circuit's step; else it goes on.
LEMMA TryAcquireRefines ==
  ASSUME SequentialInv, IInv', NEW t \in Threads, Only(t), TryAcquire(t)
  PROVE  Refines
<1>1. /\ UNCHANGED <<state, failures, openedAt, rearmedAt, now, cooldown, threshold>>
      /\ t \in Callers /\ pc[t] = "idle" /\ ticket[t] = "None"
      /\ t \in Users /\ Plain(t)
  BY Zenon DEF TryAcquire, At, atomics, config, SequentialInv, Belongs, Users, Plain
<1>2. /\ MappedCircuit = state /\ MappedAge = Age(openedAt)
      /\ MappedThreshold = threshold /\ MappedTicket(t) = "None"
  BY <1>1, PlainMap, Zenon DEF SequentialInv
<1>3. CASE state = "Closed" /\ Return(t, "Normal")
  <2>1. /\ SequentialInv' /\ MappedCircuit' = state' /\ MappedAge' = Age(openedAt)'
        /\ MappedThreshold' = threshold'
        /\ CircuitTickets' = [CircuitTickets EXCEPT ![t] = "Normal"]
    BY <1>1, <1>3, Rests, Zenon DEF Admission
  <2>2. CircuitTickets[t] = "None"
    BY <1>1, <1>2, Zenon DEF CircuitTickets
  <2>3. C!Admit(t)
    BY <1>1, <1>2, <1>3, <2>1, <2>2, SameAges, Zenon DEF C!Admit, C!Holds, C!config, CircuitTickets
  <2>4. QED
    BY <1>1, <2>1, <2>3, Zenon DEF Refines, C!CircuitNext, C!Users, Users
<1>4. CASE state # "Closed" /\ Goto(t, "claim_load") /\ loc' = [loc EXCEPT ![t].seen = state]
  <2>1. loc'[t].seen = state
    BY <1>4, Zenon DEF SequentialInv, IInv, Locals
  <2>2. Fresh("claim_load", loc[t])'
    BY <1>1, <1>4, <2>1, Zenon DEF Fresh
  <2>3. Belongs(t, "claim_load", ticket[t]) /\ "claim_load" \in Labels
    BY <1>1, Zenon DEF Belongs, Labels
  <2>4. QED
    BY <1>1, <1>4, <2>2, <2>3, Reads, Zenon
<1>5. QED
  BY <1>3, <1>4, Zenon DEF TryAcquire

\* claim_probe_slot, up to its compare_exchange: a refusal shows nothing.
LEMMA ClaimRefines ==
  ASSUME SequentialInv, IInv', NEW t \in Threads, Only(t),
         ClaimLoad(t) \/ ClaimClock(t) \/ ClaimCheck(t)
  PROVE  Refines
<1>1. /\ UNCHANGED <<state, failures, openedAt, rearmedAt, now, cooldown, threshold>>
      /\ pc[t] \in {"claim_load", "claim_clock", "claim_check"} /\ Plain(t)
  BY Zenon DEF ClaimLoad, ClaimClock, ClaimCheck, At, atomics, config, Plain
<1>2. t \in Callers /\ ticket[t] = "None" /\ Fresh(pc[t], loc[t])
  BY <1>1, Zenon DEF SequentialInv, Belongs
<1>3. loc[t] \in Locals /\ now \in Nat /\ openedAt \in Nat /\ cooldown \in Nat
      /\ openedAt <= now
  BY Zenon DEF SequentialInv, IInv, SharedInv
<1>4. \A l \in {"claim_clock", "claim_check", "claim_cas"} :
        Belongs(t, l, ticket[t]) /\ l \in Labels
  BY <1>2, Zenon DEF Belongs, Labels
<1>5. CASE ClaimLoad(t)
  <2>1. loc'[t] = [loc[t] EXCEPT !.stamp = openedAt] /\ Goto(t, "claim_clock")
    BY <1>5, Zenon DEF ClaimLoad, SequentialInv, IInv
  <2>2. Fresh("claim_clock", loc[t])'
    BY <1>1, <1>2, <1>3, <1>5, <2>1 DEF Fresh, ClaimLoad, At, Locals
  <2>3. QED
    BY <1>1, <1>4, <2>1, <2>2, Reads, Zenon
<1>6. CASE ClaimClock(t)
  <2>1. loc'[t] = [loc[t] EXCEPT !.at = now] /\ Goto(t, "claim_check")
    BY <1>6, Zenon DEF ClaimClock, SequentialInv, IInv
  <2>2. Fresh("claim_check", loc[t])'
    BY <1>1, <1>2, <1>3, <1>6, <2>1 DEF Fresh, ClaimClock, At, Locals
  <2>3. QED
    BY <1>1, <1>4, <2>1, <2>2, Reads, Zenon
<1>7. CASE ClaimCheck(t) /\ Return(t, "None")
  BY <1>1, <1>2, <1>7, ReturnsAsItCame, Zenon
<1>8. CASE /\ ClaimCheck(t) /\ Goto(t, "claim_cas")
           /\ SaturatingSub(loc[t].at, loc[t].stamp) >= cooldown
           /\ loc' = [loc EXCEPT ![t].cd = cooldown]
  <2>1. loc'[t] = [loc[t] EXCEPT !.cd = cooldown]
    BY <1>8, Zenon DEF SequentialInv, IInv
  <2>2. Fresh("claim_check", loc[t])
    BY <1>2, <1>8, Zenon DEF ClaimCheck, At
  <2>3. now - openedAt >= cooldown
    BY <1>3, <1>8, <2>2, Zenon DEF Fresh, SaturatingSub
  <2>4. Fresh("claim_cas", loc[t])'
    BY <1>1, <1>3, <2>1, <2>2, <2>3, Zenon DEF Fresh, Locals
  <2>5. QED
    BY <1>1, <1>4, <1>8, <2>4, Reads, Zenon
<1>9. QED
  BY <1>5, <1>6, <1>7, <1>8, Zenon DEF ClaimCheck

\* Its compare_exchange wins, nobody having moved the stamp, and admits the
\* caller as the probe.
LEMMA ClaimCasRefines ==
  ASSUME SequentialInv, IInv', NEW t \in Threads, Only(t), ClaimCas(t)
  PROVE  Refines
<1>1. /\ UNCHANGED <<state, failures, rearmedAt, now, cooldown, threshold>>
      /\ pc[t] = "claim_cas" /\ Plain(t)
  BY Zenon DEF ClaimCas, At, config, Plain
<1>2. t \in Callers /\ t \in Users /\ ticket[t] = "None" /\ Fresh("claim_cas", loc[t])
  BY <1>1, Zenon DEF SequentialInv, Belongs, Users
<1>3. now \in Nat /\ openedAt \in Nat /\ cooldown \in Nat /\ openedAt <= now /\ cooldown <= Cap
  BY SequentialAssumption, Zenon DEF SequentialInv, IInv, SharedInv, Configured
<1>4. loc[t].stamp = openedAt /\ loc[t].at = now /\ loc[t].seen = state /\ state # "Closed"
      /\ now - openedAt >= cooldown
  BY <1>2, Zenon DEF Fresh
<1>5. /\ MappedCircuit = state /\ MappedAge = Age(openedAt)
      /\ MappedThreshold = threshold /\ CircuitTickets[t] = "None"
  BY <1>1, <1>2, PlainMap, Zenon DEF SequentialInv, CircuitTickets, Users
<1>6. Age(openedAt) >= cooldown
  BY <1>3, <1>4, SequentialAssumption, Zenon DEF Age
<1>7. openedAt' = now
  BY <1>4, Zenon DEF ClaimCas
<1>8. Age(openedAt)' = 0
  BY <1>1, <1>3, <1>7, SequentialAssumption DEF Age
<1>9. ASSUME SequentialInv', MappedCircuit' = "HalfOpen", MappedAge' = 0,
             MappedThreshold' = threshold,
             CircuitTickets' = [CircuitTickets EXCEPT ![t] = "Probe"]
      PROVE  Refines
  <2>1. C!Admit(t)
    BY <1>1, <1>2, <1>4, <1>5, <1>6, <1>9, SameAges, Zenon
       DEF C!Admit, C!Holds, C!config, CircuitTickets
  <2>2. QED
    BY <1>2, <1>9, <2>1, Zenon DEF Refines, C!CircuitNext, C!Users, Users
<1>10. CASE state = "Open" /\ Goto(t, "half_cas")
  <2>1. Fresh("half_cas", loc[t])' /\ Belongs(t, "half_cas", ticket[t]) /\ "half_cas" \in Labels
    BY <1>1, <1>2, <1>7, <1>10, Zenon DEF Fresh, Belongs, Labels
  <2>2. SequentialInv' /\ Only(t)' /\ Frame(t) /\ pc'[t] = "half_cas"
    BY <1>10, <2>1, Goes, Zenon
  <2>3. MapOf(t)'
    BY <2>2, MapIsLocalAfter, Zenon
  <2>4. /\ MappedCircuit' = "HalfOpen" /\ MappedAge' = Age(openedAt)'
        /\ MappedThreshold' = threshold' /\ MappedTicket(t)' = "Probe"
    BY <2>2, <2>3, Zenon DEF MapOf, Opening, At, MappedTicket, Effective
  <2>5. CircuitTickets' = [CircuitTickets EXCEPT ![t] = "Probe"]
    BY <2>2, <2>4, TicketMoves, Zenon
  <2>6. QED
    BY <1>1, <1>8, <1>9, <2>2, <2>4, <2>5, Zenon
<1>11. CASE state = "HalfOpen" /\ Return(t, "Probe")
  <2>1. /\ SequentialInv' /\ MappedCircuit' = state' /\ MappedAge' = Age(openedAt)'
        /\ MappedThreshold' = threshold'
        /\ CircuitTickets' = [CircuitTickets EXCEPT ![t] = "Probe"]
    BY <1>2, <1>11, Rests, Zenon DEF Admission
  <2>2. QED
    BY <1>1, <1>8, <1>9, <1>11, <2>1, Zenon
<1>12. QED
  BY <1>4, <1>10, <1>11, Zenon DEF ClaimCas

\* Its second compare_exchange does too, and changes what Circuit has seen.
LEMMA HalfCasRefines ==
  ASSUME SequentialInv, IInv', NEW t \in Threads, Only(t), HalfCas(t)
  PROVE  Refines
<1>1. /\ UNCHANGED <<failures, openedAt, rearmedAt, now, cooldown, threshold>>
      /\ pc[t] = "half_cas"
  BY Zenon DEF HalfCas, At, config
<1>2. t \in Users /\ ticket[t] = "None" /\ state = "Open"
  BY <1>1, Zenon DEF SequentialInv, Belongs, Fresh, Users
<1>3. MapOf(t)
  BY MapIsLocal, Zenon DEF SequentialInv
<1>4. /\ MappedCircuit = "HalfOpen" /\ MappedAge = Age(openedAt)
      /\ MappedThreshold = threshold /\ MappedTicket(t) = "Probe"
  BY <1>1, <1>3, Zenon DEF MapOf, Opening, At, MappedTicket, Effective
<1>5. state' = "HalfOpen" /\ PublishAndReturn(t, "Probe")
  BY <1>2, Zenon DEF HalfCas, Transition
<1>6. /\ SequentialInv' /\ Only(t)' /\ Frame(t)
      /\ MappedCircuit' = state' /\ MappedAge' = Age(openedAt)'
      /\ MappedThreshold' = threshold' /\ MappedTicket(t)' = "Probe"
  BY <1>2, <1>5, Rests, Zenon DEF Admission
<1>7. QED
  BY <1>1, <1>4, <1>5, <1>6, SameAges, Unseen, Zenon DEF Refines

\* What Circuit sees of a call that returns from a plain label.
LEMMA PlainReturn ==
  ASSUME SequentialInv, IInv', NEW t \in Threads, Only(t), Plain(t), t \in Users,
         NEW tk \in Admission \cup {"None"}, Return(t, tk) \/ PublishAndReturn(t, tk)
  PROVE  /\ SequentialInv'
         /\ MappedCircuit = state /\ MappedCircuit' = state'
         /\ MappedAge = Age(openedAt) /\ MappedAge' = Age(openedAt)'
         /\ MappedThreshold = threshold /\ MappedThreshold' = threshold'
         /\ CircuitTickets[t] = ticket[t]
         /\ CircuitTickets' = [CircuitTickets EXCEPT ![t] = tk]
<1>1. /\ MappedCircuit = state /\ MappedAge = Age(openedAt)
      /\ MappedThreshold = threshold /\ MappedTicket(t) = ticket[t]
  BY PlainMap, Zenon DEF SequentialInv
<1>2. CircuitTickets[t] = ticket[t]
  BY <1>1, Zenon DEF CircuitTickets, Users
<1>3. QED
  BY <1>1, <1>2, Rests, Zenon

\* What Circuit makes of the cap on re-arms.
LEMMA RearmAges ==
  ASSUME SequentialInv
  PROVE  RearmTooSoon(now, rearmedAt, cooldown) <=>
           rearmedAt # Never /\ Age(rearmedAt) < cooldown
<1>1. /\ now \in Nat /\ cooldown \in Nat /\ cooldown <= Cap
      /\ rearmedAt # Never => rearmedAt \in Nat /\ rearmedAt <= now
  BY SequentialAssumption, Zenon DEF SequentialInv, IInv, SharedInv, Configured
<1>2. QED
  BY <1>1, SequentialAssumption DEF RearmTooSoon, SaturatingSub, Age

\* A release that re-arms nothing: of a Normal ticket, of a circuit that is not
\* half-open, or too soon after another.
LEMMA ReleaseInVain ==
  ASSUME SequentialInv, IInv', NEW t \in Callers, Only(t), Plain(t),
         ticket[t] # "None", Return(t, "None"),
         ticket[t] = "Normal" \/ state # "HalfOpen"
           \/ RearmTooSoon(now, rearmedAt, cooldown),
         UNCHANGED <<state, failures, openedAt, rearmedAt, now, cooldown, threshold>>
  PROVE  Refines
<1>1. t \in Users /\ t \in Threads
  BY Zenon DEF Users, Threads
<1>2. /\ SequentialInv'
      /\ MappedCircuit = state /\ MappedCircuit' = state'
      /\ MappedAge = Age(openedAt) /\ MappedAge' = Age(openedAt)'
      /\ MappedThreshold = threshold /\ MappedThreshold' = threshold'
      /\ CircuitTickets[t] = ticket[t]
      /\ CircuitTickets' = [CircuitTickets EXCEPT ![t] = "None"]
  BY <1>1, PlainReturn, Zenon
<1>3. ~(C!Holds(t, "Probe") /\ C!CanRearm)
  <2>1. rearmedAt # Never /\ Age(rearmedAt) < cooldown => Age(rearmedAt) # Never
    BY ConstantsAssumption, SequentialAssumption DEF SequentialInv, IInv, SharedInv, Age
  <2>2. rearmedAt # Never => ~(Age(rearmedAt) < cooldown /\ Age(rearmedAt) >= cooldown)
    BY SequentialAssumption DEF SequentialInv, IInv, SharedInv, Age
  <2>3. QED
    BY <1>2, <2>1, <2>2, RearmAges, Zenon DEF C!Holds, C!CanRearm, CircuitTickets
<1>4. C!Release(t)
  BY <1>2, <1>3, SameAges, Zenon DEF C!Release, C!Holds, C!GiveUp, C!config, CircuitTickets
<1>5. QED
  BY <1>1, <1>2, <1>4, Zenon DEF Refines, C!CircuitNext, C!Users, Users

\* release, up to its first compare_exchange.
LEMMA ReleaseRefines ==
  ASSUME SequentialInv, IInv', NEW t \in Threads, Only(t),
         \/ Release(t) \/ ReleaseClock(t) \/ ReleaseLoad(t)
         \/ ReleaseState(t) \/ ReleaseLast(t)
  PROVE  Refines
<1>1. /\ UNCHANGED <<state, failures, openedAt, rearmedAt, now, cooldown, threshold>>
      /\ pc[t] \in {"held", "rel_clock", "rel_load", "rel_state", "rel_last"} /\ Plain(t)
  BY Zenon DEF Release, ReleaseClock, ReleaseLoad, ReleaseState, ReleaseLast, At, atomics, config, Plain
<1>2. /\ t \in Callers /\ ticket[t] # "None" /\ Fresh(pc[t], loc[t])
      /\ pc[t] # "held" => ticket[t] = "Probe"
  BY <1>1, Zenon DEF SequentialInv, Belongs, Release, ReleaseClock, ReleaseLoad, ReleaseState,
              ReleaseLast, At
<1>3. loc[t] \in Locals /\ now \in Nat /\ openedAt \in Nat /\ cooldown \in Nat
  BY Zenon DEF SequentialInv, IInv, SharedInv
<1>4. \A l \in {"rel_clock", "rel_load", "rel_state", "rel_last", "rel_cap"} :
        /\ l \in Labels
        /\ ticket[t] = "Probe" => Belongs(t, l, ticket[t])
  BY <1>2, ZenonT(40) DEF Belongs, Labels
<1>5. CASE Release(t) /\ ticket[t] = "Normal" /\ Return(t, "None")
  BY <1>1, <1>2, <1>5, ReleaseInVain, Zenon
<1>6. CASE Release(t) /\ ticket[t] = "Probe" /\ Goto(t, "rel_clock")
           /\ loc' = [loc EXCEPT ![t].cd = cooldown]
  <2>1. loc'[t] = [loc[t] EXCEPT !.cd = cooldown]
    BY <1>6, Zenon DEF SequentialInv, IInv
  <2>2. Fresh("rel_clock", loc[t])'
    BY <1>1, <1>3, <2>1, Zenon DEF Fresh, Locals
  <2>3. QED
    BY <1>1, <1>4, <1>6, <2>2, Reads, Zenon
<1>7. CASE ReleaseClock(t)
  <2>1. loc'[t] = [loc[t] EXCEPT !.at = now] /\ Goto(t, "rel_load") /\ pc[t] = "rel_clock"
    BY <1>7, Zenon DEF ReleaseClock, SequentialInv, IInv, At
  <2>2. Fresh("rel_load", loc[t])'
    BY <1>1, <1>2, <1>3, <2>1, Zenon DEF Fresh, Locals
  <2>3. QED
    BY <1>1, <1>2, <1>4, <2>1, <2>2, Reads, Zenon
<1>8. CASE ReleaseLoad(t)
  <2>1. loc'[t] = [loc[t] EXCEPT !.stamp = openedAt] /\ Goto(t, "rel_state") /\ pc[t] = "rel_load"
    BY <1>8, Zenon DEF ReleaseLoad, SequentialInv, IInv, At
  <2>2. Fresh("rel_state", loc[t])'
    BY <1>1, <1>2, <1>3, <2>1, Zenon DEF Fresh, Locals
  <2>3. QED
    BY <1>1, <1>2, <1>4, <2>1, <2>2, Reads, Zenon
<1>9. CASE ReleaseState(t) /\ state # "HalfOpen" /\ Return(t, "None")
  BY <1>1, <1>2, <1>9, ReleaseInVain, Zenon
<1>10. CASE ReleaseState(t) /\ state = "HalfOpen" /\ Goto(t, "rel_last") /\ UNCHANGED loc
  <2>1. pc[t] = "rel_state"
    BY <1>10, Zenon DEF ReleaseState, At
  <2>2. Fresh("rel_last", loc[t])'
    BY <1>1, <1>2, <1>10, <2>1, Zenon DEF Fresh
  <2>3. QED
    BY <1>1, <1>2, <1>4, <1>10, <2>1, <2>2, Reads, Zenon
<1>11. CASE ReleaseLast(t)
  <2>1. pc[t] = "rel_last" /\ loc[t].at = now /\ loc[t].cd = cooldown /\ state = "HalfOpen"
    BY <1>2, <1>11, Zenon DEF ReleaseLast, At, Fresh
  <2>2. CASE RearmTooSoon(now, rearmedAt, cooldown) /\ Return(t, "None")
    BY <1>1, <1>2, <2>2, ReleaseInVain, Zenon
  <2>3. CASE ~RearmTooSoon(now, rearmedAt, cooldown) /\ Goto(t, "rel_cap")
             /\ loc' = [loc EXCEPT ![t].last = rearmedAt]
    <3>1. loc'[t] = [loc[t] EXCEPT !.last = rearmedAt]
      BY <2>3, Zenon DEF SequentialInv, IInv
    <3>2. Fresh("rel_cap", loc[t])'
      BY <1>1, <1>2, <1>3, <2>1, <2>3, <3>1 DEF Fresh, Locals, RearmTooSoon
    <3>3. QED
      BY <1>1, <1>2, <1>4, <2>1, <2>3, <3>2, Reads, Zenon
  <2>4. QED
    BY <1>11, <2>1, <2>2, <2>3, Zenon DEF ReleaseLast
<1>12. QED
  BY <1>5, <1>6, <1>7, <1>8, <1>9, <1>10, <1>11, Zenon DEF Release, ReleaseState

\* The stamp a re-arm is about to store.
LEMMA RearmedAge ==
  ASSUME SequentialInv
  PROVE  Age(SaturatingSub(now, cooldown)) = IF Age(0) < cooldown THEN Age(0) ELSE cooldown
<1>1. now \in Nat /\ cooldown \in Nat /\ cooldown <= Cap
  BY SequentialAssumption, Zenon DEF SequentialInv, IInv, SharedInv, Configured
<1>2. QED
  BY <1>1, SequentialAssumption DEF Age, SaturatingSub

\* The compare_exchange of rearmed_at wins, and that is Circuit's re-arm.
LEMMA ReleaseCapRefines ==
  ASSUME SequentialInv, IInv', NEW t \in Threads, Only(t), ReleaseCap(t)
  PROVE  Refines
<1>1. /\ UNCHANGED <<state, failures, openedAt, now, cooldown, threshold>>
      /\ pc[t] = "rel_cap" /\ Plain(t)
  BY Zenon DEF ReleaseCap, At, config, Plain
<1>2. t \in Callers /\ t \in Users /\ ticket[t] = "Probe" /\ Fresh("rel_cap", loc[t])
  BY <1>1, Zenon DEF SequentialInv, Belongs, Users
<1>3. /\ loc[t].cd = cooldown /\ loc[t].at = now /\ loc[t].stamp = openedAt
      /\ state = "HalfOpen" /\ loc[t].last = rearmedAt
      /\ ~RearmTooSoon(now, rearmedAt, cooldown)
  BY <1>2, Zenon DEF Fresh
<1>4. rearmedAt' = now /\ Goto(t, "rel_arm") /\ UNCHANGED loc
  BY <1>3, Zenon DEF ReleaseCap
<1>5. now \in Nat /\ now # Never /\ cooldown \in Nat /\ Cap \in Nat
      /\ rearmedAt \in Nat \cup {Never}
  BY ConstantsAssumption, SequentialAssumption, Zenon DEF SequentialInv, IInv, SharedInv
<1>6. /\ MappedCircuit = state /\ MappedAge = Age(openedAt)
      /\ MappedThreshold = threshold /\ CircuitTickets[t] = "Probe"
  BY <1>1, <1>2, PlainMap, Zenon DEF SequentialInv, CircuitTickets, Users
<1>7. /\ SequentialInv' /\ Only(t)' /\ Frame(t) /\ pc'[t] = "rel_arm"
  <2>1. Fresh("rel_arm", loc[t])' /\ Belongs(t, "rel_arm", ticket[t]) /\ "rel_arm" \in Labels
    BY <1>1, <1>2, <1>3, <1>4, Zenon DEF Fresh, Belongs, Labels
  <2>2. QED
    BY <1>4, <2>1, Goes, Zenon
<1>8. MapOf(t)'
  BY <1>7, MapIsLocalAfter, Zenon
<1>9. /\ MappedCircuit' = state /\ MappedAge' = Age(SaturatingSub(now, cooldown))'
      /\ MappedThreshold' = threshold /\ MappedTicket(t)' = "None"
  BY <1>1, <1>3, <1>4, <1>7, <1>8, Zenon DEF MapOf, Opening, At, MappedTicket, Effective
<1>10. CircuitTickets' = [CircuitTickets EXCEPT ![t] = "None"]
  BY <1>7, <1>9, TicketMoves, Zenon
<1>11. MappedAge' = IF Age(0) < cooldown THEN Age(0) ELSE cooldown
  <2>1. Age(SaturatingSub(now, cooldown))' = Age(SaturatingSub(now, cooldown))
    BY <1>1, Zenon DEF Age, SaturatingSub
  <2>2. QED
    BY <1>9, <2>1, RearmedAge, Zenon
<1>12. Age(rearmedAt)' = 0
  BY <1>1, <1>4, <1>5 DEF Age
<1>13. C!Holds(t, "Probe") /\ C!CanRearm
  <2>1. rearmedAt = Never \/ Age(rearmedAt) >= cooldown
    BY <1>3, <1>5, RearmAges DEF Age
  <2>2. QED
    BY <1>3, <1>6, <2>1, Zenon DEF C!Holds, C!CanRearm, CircuitTickets
<1>14. C!Release(t)
  BY <1>1, <1>2, <1>4, <1>5, <1>6, <1>9, <1>10, <1>11, <1>12, <1>13, SameAges, Zenon
     DEF C!Release, C!Holds, C!GiveUp, C!config, CircuitTickets
<1>15. QED
  BY <1>2, <1>7, <1>14, Zenon DEF Refines, C!CircuitNext, C!Users, Users

\* Its second compare_exchange stores what Circuit has seen.
LEMMA ReleaseArmRefines ==
  ASSUME SequentialInv, IInv', NEW t \in Threads, Only(t), ReleaseArm(t)
  PROVE  Refines
<1>1. /\ UNCHANGED <<state, failures, rearmedAt, now, cooldown, threshold>>
      /\ pc[t] = "rel_arm" /\ Return(t, "None")
  BY Zenon DEF ReleaseArm, At, config
<1>2. t \in Users /\ loc[t].stamp = openedAt /\ loc[t].at = now /\ loc[t].cd = cooldown
  BY <1>1, Zenon DEF SequentialInv, Belongs, Fresh, Users
<1>3. openedAt' = SaturatingSub(now, cooldown)
  BY <1>2, Zenon DEF ReleaseArm
<1>4. MapOf(t)
  BY MapIsLocal, Zenon DEF SequentialInv
<1>5. /\ MappedCircuit = state /\ MappedAge = Age(SaturatingSub(now, cooldown))
      /\ MappedThreshold = threshold /\ MappedTicket(t) = "None"
  BY <1>1, <1>2, <1>4, Zenon DEF MapOf, Opening, At, MappedTicket, Effective
<1>6. /\ SequentialInv' /\ Only(t)' /\ Frame(t)
      /\ MappedCircuit' = state' /\ MappedAge' = Age(openedAt)'
      /\ MappedThreshold' = threshold' /\ MappedTicket(t)' = "None"
  BY <1>1, Rests, Zenon
<1>7. Age(openedAt)' = Age(SaturatingSub(now, cooldown))
  BY <1>1, <1>3, Zenon DEF Age
<1>8. QED
  BY <1>1, <1>5, <1>6, <1>7, Unseen, Zenon DEF Refines

\* record_success of a late or a superfluous result; else it goes on.
LEMMA RecordSuccessRefines ==
  ASSUME SequentialInv, IInv', NEW t \in Threads, Only(t), RecordSuccess(t)
  PROVE  Refines
<1>1. /\ UNCHANGED <<state, failures, openedAt, rearmedAt, now, cooldown, threshold>>
      /\ pc[t] = "held" /\ Plain(t)
  BY Zenon DEF RecordSuccess, At, atomics, config, Plain
<1>2. t \in Users /\ ticket[t] # "None"
  BY <1>1, Zenon DEF SequentialInv, Belongs
<1>3. CASE /\ Return(t, "None")
           /\ \/ ticket[t] = "Probe" /\ state = "Closed"
              \/ ticket[t] = "Normal" /\ state # "Closed"
  <2>1. /\ SequentialInv'
        /\ MappedCircuit = state /\ MappedCircuit' = state'
        /\ MappedAge = Age(openedAt) /\ MappedAge' = Age(openedAt)'
        /\ MappedThreshold = threshold /\ MappedThreshold' = threshold'
        /\ CircuitTickets[t] = ticket[t]
        /\ CircuitTickets' = [CircuitTickets EXCEPT ![t] = "None"]
    BY <1>1, <1>2, <1>3, PlainReturn, Zenon
  <2>2. C!Succeed(t)
    BY <1>1, <1>3, <2>1, SameAges, Zenon
       DEF C!Succeed, C!Holds, C!GiveUp, C!times, C!config, CircuitTickets
  <2>3. QED
    BY <1>2, <2>1, <2>2, Zenon DEF Refines, C!CircuitNext, C!Users, Users
<1>4. CASE ticket[t] = "Probe" /\ state # "Closed" /\ Goto(t, "ok_zero") /\ UNCHANGED loc
  <2>1. Fresh("ok_zero", loc[t])' /\ Belongs(t, "ok_zero", ticket[t]) /\ "ok_zero" \in Labels
    BY <1>1, <1>2, <1>4, Zenon DEF Fresh, Belongs, Labels
  <2>2. QED
    BY <1>1, <1>4, <2>1, Reads, Zenon
<1>5. CASE ticket[t] = "Normal" /\ state = "Closed" /\ Goto(t, "ok_reset") /\ UNCHANGED loc
  <2>1. Fresh("ok_reset", loc[t])' /\ Belongs(t, "ok_reset", ticket[t]) /\ "ok_reset" \in Labels
    BY <1>1, <1>2, <1>5, Zenon DEF Fresh, Belongs, Labels
  <2>2. QED
    BY <1>1, <1>5, <2>1, Reads, Zenon
<1>6. QED
  BY <1>3, <1>4, <1>5, Zenon DEF RecordSuccess

\* The store of zero in consecutive_failures is where a success takes effect.
LEMMA SuccessRefines ==
  ASSUME SequentialInv, IInv', NEW t \in Threads, Only(t), SuccessZero(t) \/ SuccessReset(t)
  PROVE  Refines
<1>1. /\ UNCHANGED <<state, openedAt, rearmedAt, now, cooldown, threshold>>
      /\ failures' = 0 /\ pc[t] \in {"ok_zero", "ok_reset"} /\ Plain(t)
  BY Zenon DEF SuccessZero, SuccessReset, At, config, Plain
<1>2. /\ t \in Users
      /\ pc[t] = "ok_zero" => ticket[t] = "Probe" /\ state # "Closed"
      /\ pc[t] = "ok_reset" => ticket[t] = "Normal" /\ state = "Closed"
  BY <1>1, Zenon DEF SequentialInv, Belongs, Fresh
<1>3. CASE SuccessReset(t)
  <2>1. pc[t] = "ok_reset" /\ Return(t, "None")
    BY <1>3, Zenon DEF SuccessReset, At
  <2>2. /\ SequentialInv'
        /\ MappedCircuit = state /\ MappedCircuit' = state'
        /\ MappedAge = Age(openedAt) /\ MappedAge' = Age(openedAt)'
        /\ MappedThreshold = threshold /\ MappedThreshold' = threshold'
        /\ CircuitTickets[t] = ticket[t]
        /\ CircuitTickets' = [CircuitTickets EXCEPT ![t] = "None"]
    BY <1>1, <1>2, <2>1, PlainReturn, Zenon
  <2>3. C!Succeed(t)
    BY <1>1, <1>2, <2>1, <2>2, SameAges, Zenon
       DEF C!Succeed, C!Holds, C!GiveUp, C!times, C!config, CircuitTickets
  <2>4. QED
    BY <1>2, <2>2, <2>3, Zenon DEF Refines, C!CircuitNext, C!Users, Users
<1>4. CASE SuccessZero(t)
  <2>1. pc[t] = "ok_zero" /\ Goto(t, "ok_swap") /\ UNCHANGED loc
    BY <1>4, Zenon DEF SuccessZero, At
  <2>2. /\ MappedCircuit = state /\ MappedAge = Age(openedAt)
        /\ MappedThreshold = threshold /\ CircuitTickets[t] = "Probe"
    BY <1>1, <1>2, <2>1, PlainMap, Zenon DEF SequentialInv, CircuitTickets, Users
  <2>3. Fresh("ok_swap", loc[t])' /\ Belongs(t, "ok_swap", ticket[t]) /\ "ok_swap" \in Labels
    BY <1>1, <1>2, <2>1, Zenon DEF Fresh, Belongs, Labels
  <2>4. SequentialInv' /\ Only(t)' /\ Frame(t) /\ pc'[t] = "ok_swap"
    BY <2>1, <2>3, Goes, Zenon
  <2>5. MapOf(t)'
    BY <2>4, MapIsLocalAfter, Zenon
  <2>6. /\ MappedCircuit' = "Closed" /\ MappedAge' = Age(openedAt)'
        /\ MappedThreshold' = threshold' /\ MappedTicket(t)' = "None"
    BY <2>4, <2>5, Zenon DEF MapOf, Opening, At, MappedTicket, Effective
  <2>7. CircuitTickets' = [CircuitTickets EXCEPT ![t] = "None"]
    BY <2>4, <2>6, TicketMoves, Zenon
  <2>8. C!Succeed(t)
    BY <1>1, <1>2, <2>1, <2>2, <2>6, <2>7, SameAges, Zenon
       DEF C!Succeed, C!Holds, C!GiveUp, C!times, C!config, CircuitTickets
  <2>9. QED
    BY <1>2, <2>4, <2>8, Zenon DEF Refines, C!CircuitNext, C!Users, Users
<1>5. QED
  BY <1>3, <1>4, Zenon

\* The swap that follows shows nothing new.
LEMMA SuccessSwapRefines ==
  ASSUME SequentialInv, IInv', NEW t \in Threads, Only(t), SuccessSwap(t)
  PROVE  Refines
<1>1. /\ UNCHANGED <<failures, openedAt, rearmedAt, now, cooldown, threshold>>
      /\ pc[t] = "ok_swap" /\ state' = "Closed"
      /\ Return(t, "None") \/ PublishAndReturn(t, "None")
  BY Zenon DEF SuccessSwap, At, config
<1>2. MapOf(t)
  BY MapIsLocal, Zenon DEF SequentialInv
<1>3. /\ MappedCircuit = "Closed" /\ MappedAge = Age(openedAt)
      /\ MappedThreshold = threshold /\ MappedTicket(t) = "None"
  BY <1>1, <1>2, Zenon DEF MapOf, Opening, At, MappedTicket, Effective
<1>4. /\ SequentialInv' /\ Only(t)' /\ Frame(t)
      /\ MappedCircuit' = state' /\ MappedAge' = Age(openedAt)'
      /\ MappedThreshold' = threshold' /\ MappedTicket(t)' = "None"
  BY <1>1, Rests, Zenon
<1>5. QED
  BY <1>1, <1>3, <1>4, SameAges, Unseen, Zenon DEF Refines

\* record_failure: a late result changes nothing, a failed probe opens the
\* circuit, and a failure of a closed circuit is yet to be counted.
LEMMA RecordFailureRefines ==
  ASSUME SequentialInv, IInv', NEW t \in Threads, Only(t), RecordFailure(t)
  PROVE  Refines
<1>1. /\ UNCHANGED <<state, failures, openedAt, rearmedAt, now, cooldown, threshold>>
      /\ pc[t] = "held" /\ Plain(t)
  BY Zenon DEF RecordFailure, At, atomics, config, Plain
<1>2. t \in Users /\ ticket[t] # "None"
  BY <1>1, Zenon DEF SequentialInv, Belongs
<1>3. CASE state = "Closed" /\ Goto(t, "fail_add") /\ loc' = [loc EXCEPT ![t].seen = state]
  <2>1. Fresh("fail_add", loc[t])' /\ Belongs(t, "fail_add", ticket[t]) /\ "fail_add" \in Labels
    BY <1>1, <1>2, <1>3, Zenon DEF Fresh, Belongs, Labels
  <2>2. QED
    BY <1>1, <1>3, <2>1, Reads, Zenon
<1>4. CASE /\ state = "HalfOpen" /\ ticket[t] = "Probe" /\ Goto(t, "fail_clock")
           /\ loc' = [loc EXCEPT ![t].seen = state]
  <2>1. /\ MappedCircuit = state /\ MappedAge = Age(openedAt)
        /\ MappedThreshold = threshold /\ CircuitTickets[t] = "Probe"
    BY <1>1, <1>2, <1>4, PlainMap, Zenon DEF SequentialInv, CircuitTickets, Users
  <2>2. loc'[t].seen = state
    BY <1>4 DEF SequentialInv, IInv, Locals
  <2>3. /\ Fresh("fail_clock", loc[t])' /\ Belongs(t, "fail_clock", ticket[t])
        /\ "fail_clock" \in Labels
    BY <1>1, <1>2, <2>2, Zenon DEF Fresh, Belongs, Labels
  <2>4. SequentialInv' /\ Only(t)' /\ Frame(t) /\ pc'[t] = "fail_clock"
    BY <1>4, <2>3, Goes, Zenon
  <2>5. MapOf(t)'
    BY <2>4, MapIsLocalAfter, Zenon
  <2>6. /\ MappedCircuit' = "Open" /\ MappedAge' = 0
        /\ MappedThreshold' = threshold' /\ MappedTicket(t)' = "None"
    BY <2>4, <2>5, Zenon DEF MapOf, Opening, At, MappedTicket, Effective
  <2>7. CircuitTickets' = [CircuitTickets EXCEPT ![t] = "None"]
    BY <2>4, <2>6, TicketMoves, Zenon
  <2>8. C!Fail(t)
    BY <1>1, <1>4, <2>1, <2>6, <2>7, SameAges, Zenon
       DEF C!Fail, C!Open, C!Holds, C!GiveUp, C!config, CircuitTickets
  <2>9. QED
    BY <1>2, <2>4, <2>8, Zenon DEF Refines, C!CircuitNext, C!Users, Users
<1>5. CASE /\ state = "Open" \/ (state = "HalfOpen" /\ ticket[t] = "Normal")
           /\ Return(t, "None")
  <2>1. /\ SequentialInv'
        /\ MappedCircuit = state /\ MappedCircuit' = state'
        /\ MappedAge = Age(openedAt) /\ MappedAge' = Age(openedAt)'
        /\ MappedThreshold = threshold /\ MappedThreshold' = threshold'
        /\ CircuitTickets[t] = ticket[t]
        /\ CircuitTickets' = [CircuitTickets EXCEPT ![t] = "None"]
    BY <1>1, <1>2, <1>5, PlainReturn, Zenon
  <2>2. C!Fail(t)
    BY <1>1, <1>2, <1>5, <2>1, SameAges, Zenon
       DEF C!Fail, C!Holds, C!GiveUp, C!config, CircuitTickets
  <2>3. QED
    BY <1>2, <2>1, <2>2, Zenon DEF Refines, C!CircuitNext, C!Users, Users
<1>6. QED
  BY <1>3, <1>4, <1>5, Zenon DEF RecordFailure

\* The fetch_add is where a failure of a closed circuit takes effect, the
\* opening it may lead to included.
LEMMA FailureAddRefines ==
  ASSUME SequentialInv, IInv', NEW t \in Threads, Only(t), FailureAdd(t)
  PROVE  Refines
<1>1. /\ UNCHANGED <<state, openedAt, rearmedAt, now, cooldown, threshold>>
      /\ failures' = failures + 1 /\ pc[t] = "fail_add" /\ Plain(t)
      /\ Goto(t, "fail_check")
  BY Zenon DEF FailureAdd, At, config, Plain
<1>2. t \in Users /\ ticket[t] # "None" /\ state = "Closed"
  BY <1>1, Zenon DEF SequentialInv, Belongs, Fresh
<1>3. /\ MappedCircuit = state /\ MappedAge = Age(openedAt)
      /\ MappedThreshold = threshold /\ CircuitTickets[t] = ticket[t]
  BY <1>1, <1>2, PlainMap, Zenon DEF SequentialInv, CircuitTickets, Users
<1>4. loc'[t].n = failures + 1
  BY Zenon DEF FailureAdd, SequentialInv, IInv, Locals
<1>5. Fresh("fail_check", loc[t])' /\ Belongs(t, "fail_check", ticket[t]) /\ "fail_check" \in Labels
  BY <1>1, <1>2, <1>4, Zenon DEF Fresh, Belongs, Labels
<1>6. SequentialInv' /\ Only(t)' /\ Frame(t) /\ pc'[t] = "fail_check"
  BY <1>1, <1>5, Goes, Zenon
<1>7. MapOf(t)'
  BY <1>6, MapIsLocalAfter, Zenon
<1>8. Opening(t)' <=> failures + 1 >= threshold
  BY <1>1, <1>4, <1>6, Zenon DEF Opening
<1>9. /\ MappedThreshold' = threshold' /\ MappedTicket(t)' = "None"
      /\ failures + 1 >= threshold => MappedCircuit' = "Open" /\ MappedAge' = 0
      /\ ~(failures + 1 >= threshold) => MappedCircuit' = state' /\ MappedAge' = Age(openedAt)'
  BY <1>6, <1>7, <1>8, Zenon DEF MapOf, At, MappedTicket, Effective
<1>10. CircuitTickets' = [CircuitTickets EXCEPT ![t] = "None"]
  BY <1>6, <1>9, TicketMoves, Zenon
<1>11. C!Fail(t)
  BY <1>1, <1>2, <1>3, <1>9, <1>10, SameAges, Zenon
     DEF C!Fail, C!Open, C!Holds, C!GiveUp, C!config, CircuitTickets
<1>12. QED
  BY <1>2, <1>6, <1>11, Zenon DEF Refines, C!CircuitNext, C!Users, Users

\* Every access after it shows nothing new: the stamp is read at the clock of
\* the opening, and no other thread moves the circuit in between.
LEMMA FailureRefines ==
  ASSUME SequentialInv, IInv', NEW t \in Threads, Only(t),
         FailureCheck(t) \/ FailureClock(t) \/ FailureStore(t) \/ FailureCas(t)
  PROVE  Refines
<1>1. /\ UNCHANGED <<failures, rearmedAt, now, cooldown, threshold>>
      /\ pc[t] \in {"fail_check", "fail_clock", "fail_store", "fail_cas"}
  BY Zenon DEF FailureCheck, FailureClock, FailureStore, FailureCas, At, atomics, config
<1>2. t \in Users /\ ticket[t] # "None" /\ Fresh(pc[t], loc[t])
  BY <1>1, Zenon DEF SequentialInv, Belongs
<1>3. loc[t] \in Locals /\ now \in Nat /\ Cap \in Nat /\ loc[t].n \in Nat /\ threshold \in Nat
  BY SequentialAssumption, Zenon DEF SequentialInv, IInv, SharedInv, Locals
<1>4. MapOf(t)
  BY MapIsLocal, Zenon DEF SequentialInv
<1>5. MappedThreshold = threshold /\ MappedTicket(t) = "None"
  BY <1>1, <1>4, Zenon DEF MapOf, At, MappedTicket, Effective, Opening
<1>6. Opening(t) => MappedCircuit = "Open" /\ MappedAge = 0
  BY <1>4, Zenon DEF MapOf
<1>7. ASSUME NEW l \in {"fail_clock", "fail_store", "fail_cas"},
             Goto(t, l), Fresh(l, loc[t])', Opening(t)
      PROVE  Refines
  <2>1. Belongs(t, l, ticket[t]) /\ l \in Labels
    BY <1>2, Zenon DEF Belongs, Labels
  <2>2. SequentialInv' /\ Only(t)' /\ Frame(t) /\ pc'[t] = l
    BY <1>7, <2>1, Goes, Zenon
  <2>3. MapOf(t)'
    BY <2>2, MapIsLocalAfter, Zenon
  <2>4. /\ MappedCircuit' = "Open" /\ MappedAge' = 0
        /\ MappedThreshold' = threshold' /\ MappedTicket(t)' = "None"
    BY <2>2, <2>3, Zenon DEF MapOf, Opening, At, MappedTicket, Effective
  <2>5. QED
    BY <1>1, <1>5, <1>6, <1>7, <2>2, <2>4, Unseen, Zenon DEF Refines
<1>8. CASE FailureCheck(t) /\ loc[t].n < threshold /\ Return(t, "None")
  <2>1. pc[t] = "fail_check" /\ UNCHANGED <<state, openedAt>> /\ ~Opening(t)
    BY <1>3, <1>8 DEF FailureCheck, At, atomics, Opening
  <2>2. MappedCircuit = state /\ MappedAge = Age(openedAt)
    BY <1>4, <2>1, Zenon DEF MapOf, At
  <2>3. /\ SequentialInv' /\ Only(t)' /\ Frame(t)
        /\ MappedCircuit' = state' /\ MappedAge' = Age(openedAt)'
        /\ MappedThreshold' = threshold' /\ MappedTicket(t)' = "None"
    BY <1>8, Rests, Zenon
  <2>4. QED
    BY <1>1, <1>5, <2>1, <2>2, <2>3, SameAges, Unseen, Zenon DEF Refines
<1>9. CASE FailureCheck(t) /\ loc[t].n >= threshold /\ Goto(t, "fail_clock") /\ UNCHANGED loc
  <2>1. pc[t] = "fail_check" /\ UNCHANGED <<state, openedAt>> /\ Opening(t)
    BY <1>9, Zenon DEF FailureCheck, At, atomics, Opening
  <2>2. state = "Closed" /\ loc[t].seen = "Closed"
    BY <1>2, <2>1, Zenon DEF Fresh, SequentialInv, IInv, Knows
  <2>3. Fresh("fail_clock", loc[t])'
    BY <1>9, <2>1, <2>2, Zenon DEF Fresh
  <2>4. QED
    BY <1>7, <1>9, <2>1, <2>3, Zenon
<1>10. CASE FailureClock(t)
  <2>1. /\ pc[t] = "fail_clock" /\ UNCHANGED <<state, openedAt>> /\ Opening(t)
        /\ Goto(t, "fail_store") /\ loc'[t] = [loc[t] EXCEPT !.at = now]
    BY <1>10, Zenon DEF FailureClock, At, atomics, Opening, SequentialInv, IInv
  <2>2. Fresh("fail_store", loc[t])'
    BY <1>1, <1>2, <1>3, <2>1, Zenon DEF Fresh, Locals
  <2>3. QED
    BY <1>7, <2>1, <2>2, Zenon
<1>11. CASE FailureStore(t)
  <2>1. /\ pc[t] = "fail_store" /\ UNCHANGED <<state, loc>> /\ Opening(t)
        /\ Goto(t, "fail_cas") /\ openedAt' = loc[t].at
    BY <1>11, Zenon DEF FailureStore, At, Opening
  <2>2. Fresh("fail_cas", loc[t])'
    BY <1>1, <1>2, <2>1, Zenon DEF Fresh
  <2>3. QED
    BY <1>7, <2>1, <2>2, Zenon
<1>12. CASE FailureCas(t)
  <2>1. pc[t] = "fail_cas" /\ UNCHANGED openedAt /\ Opening(t)
    BY <1>12, Zenon DEF FailureCas, At, Opening
  <2>2. loc[t].seen = state /\ openedAt = now
    BY <1>2, <2>1, Zenon DEF Fresh
  <2>3. state' = "Open" /\ PublishAndReturn(t, "None")
    BY <1>12, <2>2, Zenon DEF FailureCas, Transition
  <2>4. /\ SequentialInv' /\ Only(t)' /\ Frame(t)
        /\ MappedCircuit' = state' /\ MappedAge' = Age(openedAt)'
        /\ MappedThreshold' = threshold' /\ MappedTicket(t)' = "None"
    BY <2>3, Rests, Zenon
  <2>5. Age(openedAt)' = 0
    BY <1>1, <1>3, <2>1, <2>2 DEF Age
  <2>6. QED
    BY <1>1, <1>5, <1>6, <2>1, <2>3, <2>4, <2>5, Unseen, Zenon DEF Refines
<1>13. QED
  BY <1>8, <1>9, <1>10, <1>11, <1>12, Zenon DEF FailureCheck

\* set_gauges touches nothing that Circuit knows of.
LEMMA GaugeRefines ==
  ASSUME SequentialInv, IInv', NEW t \in Threads, Only(t),
         GaugeLoad(t) \/ GaugeState(t) \/ GaugeAlive(t)
  PROVE  Refines
<1>1. /\ UNCHANGED <<state, failures, openedAt, rearmedAt, now, cooldown, threshold>>
      /\ pc[t] \in {"gauge_load", "gauge_state", "gauge_alive"} /\ Plain(t)
  BY Zenon DEF GaugeLoad, GaugeState, GaugeAlive, At, atomics, config, Plain
<1>2. t \in Users \/ ticket[t] = "None"
  BY <1>1, Zenon DEF SequentialInv, Belongs
<1>3. ASSUME NEW l \in {"gauge_state", "gauge_alive"}, Goto(t, l) PROVE Refines
  <2>1. Fresh(l, loc[t])' /\ Belongs(t, l, ticket[t]) /\ l \in Labels
    BY <1>2, Zenon DEF Fresh, Belongs, Labels
  <2>2. QED
    BY <1>1, <1>3, <2>1, Reads, Zenon
<1>4. CASE Return(t, ticket[t])
  BY <1>1, <1>2, <1>4, ReturnsAsItCame, Zenon
<1>5. QED
  BY <1>3, <1>4, Zenon DEF GaugeLoad, GaugeState, GaugeAlive

\* A dropped handler, and a round of the health loop.
LEMMA DropOrCheckRefines ==
  ASSUME SequentialInv, IInv', NEW t \in Threads, Only(t), Drop(t) \/ HealthTick(t)
  PROVE  Refines
<1>1. /\ UNCHANGED <<state, failures, openedAt, rearmedAt, now, cooldown, threshold>>
      /\ pc[t] \in {"idle", "held"} /\ Plain(t) /\ t \in Users
  BY Zenon DEF Drop, HealthTick, At, atomics, config, Plain, Users
<1>2. PICK tk \in {"None", "Probe"} :
        /\ Return(t, tk) \/ PublishAndReturn(t, tk)
        /\ tk = "None" => t \in Callers /\ ticket[t] # "None"
        /\ tk = "Probe" => t \in Checkers /\ ticket[t] = "None"
  BY Zenon DEF Drop, HealthTick, At, SequentialInv, Belongs
<1>3. tk \in Admission \cup {"None"}
  BY Zenon DEF Admission
<1>4. /\ SequentialInv'
      /\ MappedCircuit = state /\ MappedCircuit' = state'
      /\ MappedAge = Age(openedAt) /\ MappedAge' = Age(openedAt)'
      /\ MappedThreshold = threshold /\ MappedThreshold' = threshold'
      /\ CircuitTickets[t] = ticket[t]
      /\ CircuitTickets' = [CircuitTickets EXCEPT ![t] = tk]
  BY <1>1, <1>2, <1>3, PlainReturn, Zenon
<1>5. CASE tk = "None"
  <2>1. C!Lose(t)
    BY <1>1, <1>2, <1>4, <1>5, SameAges, Zenon
       DEF C!Lose, C!Holds, C!GiveUp, C!times, C!config, CircuitTickets
  <2>2. QED
    BY <1>1, <1>4, <2>1, Zenon DEF Refines, C!CircuitNext, C!Users, Users
<1>6. CASE tk = "Probe"
  <2>1. C!Check(t)
    BY <1>1, <1>2, <1>4, <1>6, SameAges, Zenon
       DEF C!Check, C!Holds, C!times, C!config, CircuitTickets
  <2>2. QED
    BY <1>1, <1>4, <2>1, Zenon DEF Refines, C!CircuitNext, C!Users, Users
<1>7. QED
  BY <1>5, <1>6, Zenon

\* The first store of reconfigure is where the new configuration takes effect.
LEMMA ReconfigureRefines ==
  ASSUME SequentialInv, IInv', NEW t \in Threads, Only(t), Reconfigure(t)
  PROVE  Refines
<1>1. /\ UNCHANGED <<state, failures, openedAt, rearmedAt, now, threshold>>
      /\ pc[t] = "idle" /\ Plain(t) /\ ticket[t] = "None" /\ Goto(t, "conf_threshold")
  BY Zenon DEF Reconfigure, At, atomics, Plain, SequentialInv, Belongs
<1>2. PICK c \in Configs : cooldown' = c.cooldown /\ loc' = [loc EXCEPT ![t].n = c.threshold]
  BY Zenon DEF Reconfigure
<1>3. loc'[t].n = c.threshold
  BY <1>2, ZenonT(40) DEF SequentialInv, IInv, Locals
<1>4. /\ MappedCircuit = state /\ MappedAge = Age(openedAt)
      /\ MappedTicket(t) = "None"
  BY <1>1, PlainMap, Zenon DEF SequentialInv
<1>5. /\ Fresh("conf_threshold", loc[t])' /\ Belongs(t, "conf_threshold", ticket[t])
      /\ "conf_threshold" \in Labels
  BY <1>1, Zenon DEF Fresh, Belongs, Labels
<1>6. SequentialInv' /\ Only(t)' /\ Frame(t) /\ pc'[t] = "conf_threshold" /\ ticket'[t] = "None"
  BY <1>1, <1>5, Goes, Zenon
<1>7. MapOf(t)'
  BY <1>6, MapIsLocalAfter, Zenon
<1>8. /\ MappedCircuit' = state' /\ MappedAge' = Age(openedAt)'
      /\ MappedThreshold' = c.threshold /\ MappedTicket(t)' = "None"
  BY <1>3, <1>6, <1>7, Zenon DEF MapOf, Opening, At, MappedTicket, Effective
<1>9. CircuitTickets' = CircuitTickets
  BY <1>4, <1>6, <1>8, TicketMoves, Zenon
<1>10. C!Retune
  BY <1>1, <1>2, <1>4, <1>8, <1>9, SameAges, Zenon DEF C!Retune, C!times, CircuitTickets
<1>11. QED
  BY <1>6, <1>10, Zenon DEF Refines, C!CircuitNext

\* Its second store shows nothing new.
LEMMA ReconfigureThresholdRefines ==
  ASSUME SequentialInv, IInv', NEW t \in Threads, Only(t), ReconfigureThreshold(t)
  PROVE  Refines
<1>1. /\ UNCHANGED <<state, failures, openedAt, rearmedAt, now, cooldown>>
      /\ pc[t] = "conf_threshold" /\ threshold' = loc[t].n /\ PublishAndReturn(t, "None")
  BY Zenon DEF ReconfigureThreshold, At, atomics
<1>2. ticket[t] = "None"
  BY <1>1, Zenon DEF SequentialInv, Belongs
<1>3. MapOf(t)
  BY MapIsLocal, Zenon DEF SequentialInv
<1>4. /\ MappedCircuit = state /\ MappedAge = Age(openedAt)
      /\ MappedThreshold = loc[t].n /\ MappedTicket(t) = "None"
  BY <1>1, <1>2, <1>3, Zenon DEF MapOf, Opening, At, MappedTicket, Effective
<1>5. /\ SequentialInv' /\ Only(t)' /\ Frame(t)
      /\ MappedCircuit' = state' /\ MappedAge' = Age(openedAt)'
      /\ MappedThreshold' = threshold' /\ MappedTicket(t)' = "None"
  BY <1>1, Rests, Zenon
<1>6. QED
  BY <1>1, <1>4, <1>5, SameAges, Unseen, Zenon DEF Refines

\* Between calls Circuit's state is the breaker's.
LEMMA QuietMap ==
  Quiet => /\ MappedCircuit = state
           /\ MappedAge = Age(openedAt)
           /\ MappedThreshold = threshold
           /\ \A t \in Threads : MappedTicket(t) = ticket[t]
<1> SUFFICES ASSUME Quiet
             PROVE  /\ MappedCircuit = state /\ MappedAge = Age(openedAt)
                    /\ MappedThreshold = threshold
                    /\ \A t \in Threads : MappedTicket(t) = ticket[t]
  BY Zenon
<1>1. \A s \in Threads : /\ ~Opening(s) /\ ~Effective(s)
                         /\ ~At(s, "half_cas") /\ ~At(s, "ok_swap")
                         /\ ~At(s, "rel_arm") /\ ~At(s, "conf_threshold")
  BY Zenon DEF Quiet, InCall, Opening, Effective, At
<1>2. QED
  BY <1>1, Zenon DEF MappedCircuit, MappedAge, MappedThreshold, MappedTicket

\* The same, after a step.
LEMMA QuietMapAfter ==
  (Quiet => /\ MappedCircuit = state
            /\ MappedAge = Age(openedAt)
            /\ MappedThreshold = threshold
            /\ \A t \in Threads : MappedTicket(t) = ticket[t])'
BY QuietMap, PTL

\* A millisecond passes between calls.
LEMMA TickRefines ==
  ASSUME SequentialInv, IInv', Quiet, Tick
  PROVE  Refines
<1>1. /\ UNCHANGED <<state, failures, openedAt, rearmedAt, cooldown, threshold>>
      /\ UNCHANGED <<pc, ticket, loc>> /\ now' = now + 1
  BY Zenon DEF Tick, atomics, config, thread
<1>2. Quiet'
  BY <1>1, Zenon DEF Quiet, InCall
<1>3. SequentialInv'
  <2>1. Alone'
    BY <1>2, Zenon DEF Alone, Quiet
  <2>2. ASSUME NEW t \in Threads
        PROVE  Belongs(t, pc'[t], ticket'[t]) /\ Fresh(pc[t], loc[t])'
    BY <1>1, <1>2, Zenon DEF SequentialInv, Quiet, InCall, Fresh
  <2>3. QED
    BY <2>1, <2>2, Zenon DEF SequentialInv
<1>4. \A t \in Callers \cup Checkers : MappedTicket(t)' = MappedTicket(t)
  BY <1>1, <1>2, QuietMap, QuietMapAfter, Zenon DEF Threads
<1>5. CircuitTickets' = CircuitTickets
  BY <1>4, Zenon DEF CircuitTickets
<1>6. /\ now \in Nat /\ openedAt \in Nat /\ openedAt <= now /\ Cap \in Nat
      /\ rearmedAt # Never => rearmedAt \in Nat /\ rearmedAt <= now
      /\ Never \notin Nat
  BY ConstantsAssumption, SequentialAssumption, Zenon DEF SequentialInv, IInv, SharedInv
<1>7. ASSUME NEW a \in Nat, a <= now
      PROVE  /\ (IF now' - a < Cap THEN now' - a ELSE Cap) = C!Capped(Age(a) + 1)
             /\ Age(a) \in Nat
  BY <1>1, <1>6, <1>7 DEF Age, C!Capped
<1>8. /\ Age(openedAt)' = C!Capped(Age(openedAt) + 1)
      /\ Age(0)' = C!Capped(Age(0) + 1)
      /\ rearmedAt # Never => /\ Age(rearmedAt)' = C!Capped(Age(rearmedAt) + 1)
                              /\ Age(rearmedAt) # Never
  <2>1. 0 \in Nat /\ 0 <= now
    BY <1>6
  <2>2. QED
    BY <1>1, <1>6, <1>7, <2>1, Zenon DEF Age
<1>9. C!Elapse
  BY <1>1, <1>2, <1>5, <1>8, QuietMap, QuietMapAfter, Zenon DEF C!Elapse, C!config, CircuitTickets
<1>10. QED
  BY <1>3, <1>9, Zenon DEF Refines, C!CircuitNext

-----------------------------------------------------------------------------
(* The theorem *)

\* A new breaker is a new circuit (CircuitBreaker::new).
LEMMA InitRefines == Init => SequentialInv /\ C!CircuitInit
<1> SUFFICES ASSUME Init PROVE SequentialInv /\ C!CircuitInit
  BY Zenon
<1>1. IInv
  BY InitIInv, Zenon
<1>2. /\ state = "Closed" /\ failures = 0 /\ openedAt = 0 /\ rearmedAt = Never /\ now = 0
      /\ \A t \in Threads : pc[t] = "idle" /\ ticket[t] = "None"
      /\ \E c \in Configs : cooldown = c.cooldown /\ threshold = c.threshold
  BY Zenon DEF Init
<1>3. Quiet /\ Alone
  BY <1>2, Zenon DEF Quiet, InCall, Alone
<1>4. \A t \in Threads : Belongs(t, pc[t], ticket[t]) /\ Fresh(pc[t], loc[t])
  BY <1>2, Zenon DEF Belongs, Fresh
<1>5. Age(0) = 0
  BY <1>2, SequentialAssumption DEF Age
<1>6. CircuitTickets = [t \in Callers \cup Checkers |-> "None"]
  BY <1>2, <1>3, QuietMap, Zenon DEF CircuitTickets, Threads
<1>7. C!CircuitInit
  BY <1>2, <1>3, <1>5, <1>6, QuietMap, Zenon DEF C!CircuitInit, C!Users, CircuitTickets
<1>8. QED
  BY <1>1, <1>3, <1>4, <1>7, Zenon DEF SequentialInv

\* A step that changes nothing changes nothing of Circuit's.
LEMMA StutterRefines ==
  ASSUME SequentialInv, UNCHANGED vars
  PROVE  Refines
<1>1. /\ UNCHANGED <<state, failures, openedAt, rearmedAt, cooldown, threshold>>
      /\ UNCHANGED <<stateGauge, aliveGauge, now, pc, ticket, loc>>
  BY Zenon DEF vars, atomics, config, gauges, thread
<1>2. IInv'
  BY NextIInv, Zenon DEF SequentialInv
<1>3. SequentialInv'
  <2>1. Alone'
    BY <1>1, Zenon DEF SequentialInv, Alone, InCall
  <2>2. ASSUME NEW t \in Threads
        PROVE  Belongs(t, pc'[t], ticket'[t]) /\ Fresh(pc[t], loc[t])'
    BY <1>1, Zenon DEF SequentialInv, Fresh, RearmTooSoon
  <2>3. QED
    BY <1>2, <2>1, <2>2, Zenon DEF SequentialInv
<1>4. UNCHANGED C!cvars
  BY <1>1 DEF C!cvars, C!times, C!config, MappedCircuit, MappedAge, MappedThreshold,
              MappedTicket, Opening, Effective, At, Age
<1>5. QED
  BY <1>3, <1>4, Zenon DEF Refines

\* Every step of a breaker whose calls do not overlap.
LEMMA SequentialStep == SequentialInv /\ [SequentialNext]_vars => Refines
<1> SUFFICES ASSUME SequentialInv, [SequentialNext]_vars PROVE Refines
  BY Zenon
<1>1. IInv'
  BY NextIInv, Zenon DEF SequentialInv, SequentialNext, Next
<1>2. ASSUME NEW t \in Threads, Only(t), Call(t) PROVE Refines
  BY <1>1, <1>2, TryAcquireRefines, ReleaseRefines, RecordSuccessRefines,
     RecordFailureRefines, DropOrCheckRefines, ReconfigureRefines, Zenon DEF Call
<1>3. ASSUME NEW t \in Threads, Only(t), Advance(t) PROVE Refines
  BY <1>1, <1>3, ClaimRefines, ClaimCasRefines, HalfCasRefines, ReleaseRefines,
     ReleaseCapRefines, ReleaseArmRefines, SuccessRefines, SuccessSwapRefines,
     FailureAddRefines, FailureRefines, GaugeRefines, ReconfigureThresholdRefines, ZenonT(40)
     DEF Advance
<1>4. CASE Quiet /\ Tick
  BY <1>1, <1>4, TickRefines, Zenon
<1>5. ASSUME Quiet, NEW t \in Threads, Call(t) PROVE Refines
  BY <1>2, <1>5, Zenon DEF Quiet, Only
<1>6. ASSUME NEW t \in Threads, Advance(t) PROVE Refines
  <2>1. InCall(t)
    BY <1>6, Zenon DEF Advance, InCall, At, ClaimLoad, ClaimClock, ClaimCheck, ClaimCas, HalfCas,
       ReleaseClock, ReleaseLoad, ReleaseState, ReleaseLast, ReleaseCap, ReleaseArm,
       SuccessZero, SuccessSwap, SuccessReset, FailureAdd, FailureCheck, FailureClock,
       FailureStore, FailureCas, GaugeLoad, GaugeState, GaugeAlive, ReconfigureThreshold
  <2>2. Only(t)
    BY <2>1, Zenon DEF SequentialInv, Alone, Only
  <2>3. QED
    BY <1>3, <1>6, <2>2, Zenon
<1>7. CASE UNCHANGED vars
  BY <1>7, StutterRefines, Zenon
<1>8. QED
  BY <1>4, <1>5, <1>6, <1>7, Zenon DEF SequentialNext

\* The lock-free breaker implements the circuit of atomic calls whenever calls
\* do not overlap, for any number of threads, any configurations and any clock
\* bound: each call of crates/core/src/breaker.rs takes effect at one access,
\* and every other access it makes only completes what that one began.
THEOREM SequentialRefinement == SequentialSpec => ImplementsCircuit
<1>1. SequentialInv /\ [SequentialNext]_vars => SequentialInv' /\ [C!CircuitNext]_(C!cvars)
  BY SequentialStep, Zenon DEF Refines
<1>2. QED
  BY <1>1, InitRefines, PTL DEF SequentialSpec, ImplementsCircuit, C!CircuitSpec

=============================================================================
