-------------------------- MODULE BreakerSequential --------------------------
(***************************************************************************)
(* Breaker implements Circuit as long as calls do not overlap: a call      *)
(* starts, and a millisecond passes, only when no thread is inside a call. *)
(* The threads still hold tickets at the same time.  The behaviours this   *)
(* leaves out, of overlapping calls, are those of Breaker.                 *)
(***************************************************************************)
EXTENDS Breaker

CONSTANT Cap     \* ages saturate here, not below a cooldown

ASSUME SequentialAssumption ==
  Cap \in Nat /\ \A c \in Configs : c.cooldown <= Cap

Quiet == \A t \in Threads : ~InCall(t)

SequentialNext ==
  \/ Quiet /\ (Tick \/ \E t \in Threads : Call(t))
  \/ \E t \in Threads : Advance(t)

SequentialSpec == Init /\ [][SequentialNext]_vars

-----------------------------------------------------------------------------
(* A call takes effect at its first store: the mapping completes a call    *)
(* that has made it.                                                       *)

\* A failure that will open the circuit.
Opening(t) ==
  \/ pc[t] \in {"fail_clock", "fail_store", "fail_cas"}
  \/ pc[t] = "fail_check" /\ loc[t].n >= threshold

Effective(t) == Opening(t) \/ pc[t] \in {"fail_check", "ok_swap", "rel_arm"}

Age(stamp) == IF now - stamp < Cap THEN now - stamp ELSE Cap

MappedCircuit ==
  CASE \E t \in Threads : Opening(t)    -> "Open"
    [] \E t \in Threads : At(t, "half_cas") -> "HalfOpen"
    [] \E t \in Threads : At(t, "ok_swap")  -> "Closed"
    [] OTHER -> state

MappedAge ==
  IF \E t \in Threads : Opening(t) THEN 0
  ELSE IF \E t \in Threads : At(t, "rel_arm")
         THEN CHOOSE a \in 0..Cap : \E t \in Threads :
                At(t, "rel_arm") /\ a = Age(SaturatingSub(loc[t].at, loc[t].cd))
         ELSE Age(openedAt)

MappedThreshold ==
  IF \E t \in Threads : At(t, "conf_threshold")
    THEN CHOOSE n \in {loc[t].n : t \in Threads} : \E t \in Threads :
           At(t, "conf_threshold") /\ n = loc[t].n
    ELSE threshold

MappedTicket(t) ==
  CASE At(t, "half_cas") -> "Probe"
    [] Effective(t)      -> "None"
    [] OTHER             -> ticket[t]

C == INSTANCE Circuit WITH
       circuit   <- MappedCircuit,
       count     <- failures,
       age       <- MappedAge,
       rearmAge  <- IF rearmedAt = Never THEN Never ELSE Age(rearmedAt),
       uptime    <- Age(0),
       threshold <- MappedThreshold,
       ticket    <- [t \in Callers \cup Checkers |-> MappedTicket(t)]

\* A breaker whose calls do not overlap behaves as if each were one step.
ImplementsCircuit == C!CircuitSpec

=============================================================================
