---------------------------- MODULE BreakerTimely ----------------------------
(***************************************************************************)
(* The breaker when threads are not preempted for long: a call into it     *)
(* takes at most MaxStall milliseconds from its first access to its last.  *)
(***************************************************************************)
EXTENDS Breaker

CONSTANT MaxStall

ASSUME StallAssumption == MaxStall \in Nat

VARIABLES
  began,       \* when each thread's current call began
  lastSlot     \* when the last probe slot was won, Never after a re-arm

timelyVars == <<vars, began, lastSlot>>

TimelyInit == Init /\ began = [t \in Threads |-> 0] /\ lastSlot = Never

TimelyTick ==
  /\ \A t \in Threads : InCall(t) => now - began[t] < MaxStall
  /\ Tick
  /\ UNCHANGED <<began, lastSlot>>

SlotWon(t) == StepAt(t, "claim_cas") /\ pc'[t] \in {"half_cas", "held"}

Rearmed(t) == StepAt(t, "rel_arm") /\ openedAt = loc[t].stamp

TimelyStep(t) ==
  /\ Call(t) \/ Advance(t)
  /\ began' = [began EXCEPT ![t] = IF ~InCall(t)' THEN 0 ELSE IF InCall(t) THEN @ ELSE now]
  /\ lastSlot' = IF SlotWon(t) THEN now ELSE IF Rearmed(t) THEN Never ELSE lastSlot

TimelyNext == TimelyTick \/ \E t \in Threads : TimelyStep(t)

TimelySpec == TimelyInit /\ [][TimelyNext]_timelyVars

-----------------------------------------------------------------------------
(* Properties *)

\* Unless a probe is handed back in between, two probe slots are won a
\* cooldown apart in real time, less the time a call may stall: the window of
\* claim_probe_slot is not just a matter of stamps.  The cooldown is the one
\* the claim has read; a reload may bring another before its exchange.
ProbesAreACooldownApart ==
  [][\A t \in Threads :
       SlotWon(t) /\ lastSlot # Never => now - lastSlot >= loc[t].cd - MaxStall]_timelyVars

\* try_acquire on its lost transition: "Someone closed the circuit meanwhile".
\* An ordinary ticket is given only in a closed circuit.
NormalTicketMeansClosed ==
  [][\A t \in Callers :
       ticket[t] = "None" /\ ticket'[t] = "Normal" => state = "Closed"]_timelyVars

=============================================================================
