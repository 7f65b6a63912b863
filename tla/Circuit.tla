------------------------------- MODULE Circuit -------------------------------
(***************************************************************************)
(* What a breaker promises when calls into it do not overlap: each call of *)
(* crates/core/src/breaker.rs is one step.  Times are ages, saturated at   *)
(* Cap, so that time never runs out and liveness can be stated.            *)
(* BreakerSequential shows that Breaker implements this specification.     *)
(***************************************************************************)
EXTENDS Integers

CONSTANTS
  Callers,    \* request handlers
  Checkers,   \* health probes
  Configs,    \* records [cooldown, threshold] a reload may bring
  Cap,        \* ages saturate here (bound)
  Never       \* no re-arm so far

ASSUME CapAssumption ==
  /\ Cap \in Nat
  /\ \A c \in Configs : /\ c.cooldown \in 0..Cap
                        /\ c.threshold \in Nat \ {0}
                        /\ c = [cooldown |-> c.cooldown, threshold |-> c.threshold]

VARIABLES
  circuit,    \* state
  count,      \* consecutive_failures
  age,        \* now - opened_at_millis
  rearmAge,   \* now - rearmed_at_millis, or Never
  uptime,     \* now
  cooldown,   \* cooldown_millis
  threshold,  \* failure_threshold
  ticket      \* what each user of the breaker holds, or "None"

config == <<cooldown, threshold>>
times  == <<age, rearmAge, uptime>>
cvars  == <<circuit, count, times, config, ticket>>

Users == Callers \cup Checkers

CircuitTypeOK ==
  /\ circuit \in {"Closed", "Open", "HalfOpen"}
  /\ count \in Nat
  /\ age \in 0..Cap /\ uptime \in 0..Cap
  /\ rearmAge \in 0..Cap \cup {Never}
  /\ [cooldown |-> cooldown, threshold |-> threshold] \in Configs
  /\ ticket \in [Users -> {"Normal", "Probe", "None"}]

CircuitInit ==
  /\ circuit = "Closed"
  /\ count = 0
  /\ age = 0 /\ uptime = 0 /\ rearmAge = Never
  /\ \E c \in Configs : cooldown = c.cooldown /\ threshold = c.threshold
  /\ ticket = [t \in Users |-> "None"]

Capped(a) == IF a < Cap THEN a ELSE Cap

Holds(t, tk) == ticket[t] = tk

GiveUp(t) == ticket' = [ticket EXCEPT ![t] = "None"]

\* Mutant: a half-open circuit refuses everyone.
AdmitNoReplacement(t) ==
  /\ t \in Callers
  /\ Holds(t, "None")
  /\ \/ /\ circuit = "Closed"
        /\ ticket' = [ticket EXCEPT ![t] = "Normal"]
        /\ UNCHANGED <<circuit, age>>
     \/ /\ circuit = "Open"
        /\ age >= cooldown
        /\ ticket' = [ticket EXCEPT ![t] = "Probe"]
        /\ circuit' = "HalfOpen"
        /\ age' = 0
  /\ UNCHANGED <<count, rearmAge, uptime, config>>

\* try_acquire.  A refused caller changes nothing.
Admit(t) ==
  /\ t \in Callers
  /\ Holds(t, "None")
  /\ \/ /\ circuit = "Closed"
        /\ ticket' = [ticket EXCEPT ![t] = "Normal"]
        /\ UNCHANGED <<circuit, age>>
     \/ /\ circuit # "Closed"
        /\ age >= cooldown
        /\ ticket' = [ticket EXCEPT ![t] = "Probe"]
        /\ circuit' = "HalfOpen"
        /\ age' = 0
  /\ UNCHANGED <<count, rearmAge, uptime, config>>

CanRearm == circuit = "HalfOpen" /\ (rearmAge = Never \/ rearmAge >= cooldown)

\* release
Release(t) ==
  /\ t \in Callers
  /\ ~Holds(t, "None")
  /\ IF Holds(t, "Probe") /\ CanRearm
       THEN /\ age' = IF uptime < cooldown THEN uptime ELSE cooldown
            /\ rearmAge' = 0
       ELSE UNCHANGED <<age, rearmAge>>
  /\ GiveUp(t)
  /\ UNCHANGED <<circuit, count, uptime, config>>

\* record_success
Succeed(t) ==
  /\ \/ /\ Holds(t, "Probe") /\ circuit # "Closed"
        /\ circuit' = "Closed" /\ count' = 0
     \/ /\ Holds(t, "Normal") /\ circuit = "Closed"
        /\ count' = 0 /\ UNCHANGED circuit
     \/ /\ \/ Holds(t, "Probe") /\ circuit = "Closed"
           \/ Holds(t, "Normal") /\ circuit # "Closed"
        /\ UNCHANGED <<circuit, count>>
  /\ GiveUp(t)
  /\ UNCHANGED <<times, config>>

Open == circuit' = "Open" /\ age' = 0

\* Mutant: one failure more than the threshold opens the circuit.
FailOffByOne(t) ==
  /\ ~Holds(t, "None")
  /\ \/ /\ circuit = "Closed"
        /\ count' = count + 1
        /\ IF count + 1 > threshold THEN Open ELSE UNCHANGED <<circuit, age>>
     \/ /\ circuit = "HalfOpen" /\ Holds(t, "Probe")
        /\ Open
        /\ UNCHANGED count
     \/ /\ circuit = "Open" \/ (circuit = "HalfOpen" /\ Holds(t, "Normal"))
        /\ UNCHANGED <<circuit, count, age>>
  /\ GiveUp(t)
  /\ UNCHANGED <<rearmAge, uptime, config>>

\* Mutant: a failing check restamps an open circuit.
FailRestamps(t) ==
  /\ ~Holds(t, "None")
  /\ \/ /\ circuit = "Closed"
        /\ count' = count + 1
        /\ IF count + 1 >= threshold THEN Open ELSE UNCHANGED <<circuit, age>>
     \/ /\ circuit # "Closed" /\ Holds(t, "Probe")
        /\ Open
        /\ UNCHANGED count
     \/ /\ circuit # "Closed" /\ Holds(t, "Normal")
        /\ UNCHANGED <<circuit, count, age>>
  /\ GiveUp(t)
  /\ UNCHANGED <<rearmAge, uptime, config>>

\* record_failure
Fail(t) ==
  /\ ~Holds(t, "None")
  /\ \/ /\ circuit = "Closed"
        /\ count' = count + 1
        /\ IF count + 1 >= threshold THEN Open ELSE UNCHANGED <<circuit, age>>
     \/ /\ circuit = "HalfOpen" /\ Holds(t, "Probe")
        /\ Open
        /\ UNCHANGED count
     \/ /\ circuit = "Open" \/ (circuit = "HalfOpen" /\ Holds(t, "Normal"))
        /\ UNCHANGED <<circuit, count, age>>
  /\ GiveUp(t)
  /\ UNCHANGED <<rearmAge, uptime, config>>

\* A dropped handler loses its ticket.
Lose(t) ==
  /\ t \in Callers
  /\ ~Holds(t, "None")
  /\ GiveUp(t)
  /\ UNCHANGED <<circuit, count, times, config>>

\* probe_one reports with a Probe ticket nobody granted.
Check(t) ==
  /\ t \in Checkers
  /\ Holds(t, "None")
  /\ ticket' = [ticket EXCEPT ![t] = "Probe"]
  /\ UNCHANGED <<circuit, count, times, config>>

\* reconfigure, in one step
Retune ==
  /\ \E c \in Configs : cooldown' = c.cooldown /\ threshold' = c.threshold
  /\ UNCHANGED <<circuit, count, times, ticket>>

Elapse ==
  /\ age' = Capped(age + 1)
  /\ uptime' = Capped(uptime + 1)
  /\ rearmAge' = IF rearmAge = Never THEN Never ELSE Capped(rearmAge + 1)
  /\ UNCHANGED <<circuit, count, config, ticket>>

Finish(t) == Release(t) \/ Succeed(t) \/ Fail(t) \/ Lose(t)

CircuitNext ==
  \/ \E t \in Users : Admit(t) \/ Release(t) \/ Succeed(t) \/ Fail(t) \/ Lose(t) \/ Check(t)
  \/ Retune
  \/ Elapse

CircuitSpec == CircuitInit /\ [][CircuitNext]_cvars

-----------------------------------------------------------------------------
(* Fairness and properties *)

\* Time passes; every request ends (its timeout sees to that) and every health
\* probe reports; requests keep coming.  How a request ends is left open, and
\* health checks may be disabled.
CircuitFairness ==
  /\ WF_cvars(Elapse)
  /\ \A t \in Users : WF_cvars(Finish(t))
  /\ \A t \in Callers : WF_cvars(Admit(t))

FairCircuitSpec == CircuitSpec /\ CircuitFairness

\* A circuit that is not closed closes, or sends a request upstream to try: a
\* failing health check does not push an open circuit's cooldown out
\* (record_failure), and a probe lost with its handler is replaced after a
\* cooldown (try_acquire, HalfOpen arm).
CircuitIsNeverStuck ==
  circuit # "Closed" ~> (circuit = "Closed" \/ \E t \in Callers : Holds(t, "Probe"))

\* The upstream answers: requests sent as the probe succeed again and again.
UpstreamAnswers == \A t \in Callers : SF_cvars(Holds(t, "Probe") /\ Succeed(t))

\* A circuit whose upstream answers its probes closes again and again, with
\* or without health checks (record_success with a Probe ticket).
HealthyUpstreamIsRestored == UpstreamAnswers => []<>(circuit = "Closed")

\* A closed circuit is below a configured threshold: a failure that reaches
\* the threshold opens the circuit in the same call, and closing starts a new
\* count (record_failure, record_success).  A reload may lower the threshold
\* below the count.
ClosedBelowThreshold ==
  circuit = "Closed" => \E c \in Configs : count < c.threshold

=============================================================================
