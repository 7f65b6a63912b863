------------------------------ MODULE Upstreams ------------------------------
(***************************************************************************)
(* The upstreams of a live table and everyone who uses their breakers: the *)
(* rounds of health_loop (crates/core/src/health.rs), the calls of request *)
(* handlers (server/src/proxy.rs), the swaps of the table by a reload      *)
(* (config.rs), and the gauges as the exporter shows them (route.rs, and   *)
(* the idle timeout of main.rs).                                           *)
(*                                                                         *)
(* A breaker call is one step, as in Circuit, and the cooldown is over     *)
(* when it likes; time is kept for health rounds and for gauges.  A second *)
(* does not pass while a timer that has run out waits to be served.        *)
(***************************************************************************)
EXTENDS Integers, FiniteSets, FiniteSetsExt

CONSTANTS
  Names,         \* the host:port of upstreams
  Tables,        \* tables: function from the names of one to "is it probed?"
  Calling,       \* request handlers
  Moods,         \* for a name, the modes its upstream can be in
  Tripping,      \* failure_threshold
  Interval,      \* health_interval_secs
  ProbeTimeout,  \* of the health client, in seconds
  MaxReloads     \* bound

ASSUME UpstreamsAssumption ==
  /\ Tripping \in Nat \ {0} /\ Interval \in Nat \ {0} /\ ProbeTimeout \in Nat \ {0}
  /\ MaxReloads \in Nat
  /\ \A t \in Tables : DOMAIN t \subseteq Names

VARIABLES
  live,       \* the live table: its names, and whether each is probed
  gen,        \* for a name, which breaker of that name the live table holds
  breakers,   \* the breakers by name and generation: [state, count]
  gauge,      \* what the recorder holds for a name: [value, idle]
  pending,    \* the probes of this round that are out: set of [name, gen]
  spent,      \* seconds since the round began
  due,        \* seconds to the next tick
  calls,      \* for a user, the call it makes: [name, gen, ticket]
  mode,       \* how the upstream answers: "up", "failing" or "hung"
  reloads     \* reloads so far

uvars == <<live, gen, breakers, gauge, pending, spent, due, calls, mode, reloads>>

Gens == 0..MaxReloads
Fresh == [state |-> "Closed", count |-> 0]
NoCall == [name |-> "none", gen |-> 0, ticket |-> "None"]

\* PrometheusBuilder's idle_timeout for gauges.
IdleTimeout == 3 * Interval

\* What /metrics shows of a name.
Shown(n) == IF gauge[n].idle > IdleTimeout THEN "absent" ELSE gauge[n].value

UpstreamsInit ==
  /\ live \in Tables
  /\ gen = [n \in Names |-> 0]
  /\ breakers = [n \in Names, g \in Gens |-> Fresh]
  /\ gauge = [n \in Names |-> IF n \in DOMAIN live THEN [value |-> "Closed", idle |-> 0]
                                                 ELSE [value |-> "Closed", idle |-> IdleTimeout + 1]]
  /\ pending = {} /\ spent = 0 /\ due = 0
  /\ calls = [c \in Calling |-> NoCall]
  /\ mode = [n \in Names |-> "up"]
  /\ reloads = 0

\* set_gauges
Set(g, n, state) == [g EXCEPT ![n] = [value |-> state, idle |-> 0]]

\* publish_gauges: every upstream of the table.
Publish(names, g) ==
  [n \in Names |-> IF n \in names THEN [value |-> breakers[n, g[n]].state, idle |-> 0]
                                  ELSE gauge[n]]

\* A breaker moves, and says so if its state changed.
Move(n, g, b) ==
  /\ breakers' = [breakers EXCEPT ![n, g] = b]
  /\ gauge' = IF b.state = breakers[n, g].state THEN gauge ELSE Set(gauge, n, b.state)

Success(b, ticket) ==
  IF b.state = "Closed" THEN (IF ticket = "Normal" THEN Fresh ELSE b)
  ELSE IF ticket = "Probe" THEN Fresh ELSE b

\* The count of an open circuit does not matter: closing zeroes it.
Failure(b, ticket) ==
  CASE b.state = "Closed" -> IF b.count + 1 >= Tripping THEN [state |-> "Open", count |-> 0]
                             ELSE [b EXCEPT !.count = @ + 1]
    [] b.state = "HalfOpen" /\ ticket = "Probe" -> [b EXCEPT !.state = "Open"]
    [] OTHER -> b

-----------------------------------------------------------------------------
(* Health rounds *)

RoundOver == pending = {}

\* Mutant: the tick does not refresh the gauges.
StartRoundSilent ==
  /\ RoundOver /\ due = 0
  /\ due' = Interval
  /\ spent' = 0
  /\ pending' = {[name |-> n, gen |-> gen[n]] : n \in {m \in DOMAIN live : live[m]}}
  /\ UNCHANGED <<live, gen, breakers, gauge, calls, mode, reloads>>

\* The tick: the live table is loaded once, its gauges are refreshed, and one
\* probe goes out for every upstream that is not excepted.
StartRound ==
  /\ RoundOver /\ due = 0
  /\ due' = Interval
  /\ spent' = 0
  /\ gauge' = Publish(DOMAIN live, gen)
  /\ pending' = {[name |-> n, gen |-> gen[n]] : n \in {m \in DOMAIN live : live[m]}}
  /\ UNCHANGED <<live, gen, breakers, calls, mode, reloads>>

\* Mutant: a check reports like an ordinary request.
ProbeEndsNormal(p) ==
  /\ p \in pending
  /\ mode[p.name] = "hung" => spent = ProbeTimeout
  /\ pending' = pending \ {p}
  /\ LET b == breakers[p.name, p.gen]
     IN Move(p.name, p.gen, IF mode[p.name] = "up" THEN Success(b, "Normal") ELSE Failure(b, "Normal"))
  /\ UNCHANGED <<live, gen, spent, due, calls, mode, reloads>>

\* probe_one: a probe answered below 500 is a success, any other answer a
\* failure, and so is none within the client's timeout.
ProbeEnds(p) ==
  /\ p \in pending
  /\ mode[p.name] = "hung" => spent = ProbeTimeout
  /\ pending' = pending \ {p}
  /\ LET b == breakers[p.name, p.gen]
     IN Move(p.name, p.gen, IF mode[p.name] = "up" THEN Success(b, "Probe") ELSE Failure(b, "Probe"))
  /\ UNCHANGED <<live, gen, spent, due, calls, mode, reloads>>

\* A second passes, unless the tick or a timeout is due.
Second ==
  /\ ~(RoundOver /\ due = 0)
  /\ RoundOver \/ spent < ProbeTimeout
  /\ due' = Max({due - 1, 0})
  /\ spent' = IF RoundOver THEN spent ELSE spent + 1
  /\ gauge' = [n \in Names |-> [gauge[n] EXCEPT !.idle = Min({@ + 1, IdleTimeout + 1})]]
  /\ UNCHANGED <<live, gen, breakers, pending, calls, mode, reloads>>

-----------------------------------------------------------------------------
(* Calls of handle_core *)

\* try_acquire on the live table's breaker, granted.  A circuit that is not
\* closed grants a probe when its cooldown is over.
Begin(c, n) ==
  /\ calls[c] = NoCall /\ n \in DOMAIN live
  /\ LET b == breakers[n, gen[n]]
         closed == b.state = "Closed"
     IN /\ calls' = [calls EXCEPT ![c] = [name |-> n, gen |-> gen[n],
                                          ticket |-> IF closed THEN "Normal" ELSE "Probe"]]
        /\ Move(n, gen[n], IF closed THEN b ELSE [b EXCEPT !.state = "HalfOpen"])
  /\ UNCHANGED <<live, gen, pending, spent, due, mode, reloads>>

\* The outcome is reported on the breaker that granted the ticket: a call
\* that gets no answer is failed by its timeout.
End(c) ==
  /\ calls[c] # NoCall
  /\ LET k == calls[c]
         b == breakers[k.name, k.gen]
     IN Move(k.name, k.gen, IF mode[k.name] = "up" THEN Success(b, k.ticket) ELSE Failure(b, k.ticket))
  /\ calls' = [calls EXCEPT ![c] = NoCall]
  /\ UNCHANGED <<live, gen, pending, spent, due, mode, reloads>>

\* release, or a call that is dropped with its ticket.
Abandon(c) ==
  /\ calls[c] # NoCall
  /\ calls' = [calls EXCEPT ![c] = NoCall]
  /\ UNCHANGED <<live, gen, breakers, gauge, pending, spent, due, mode, reloads>>

-----------------------------------------------------------------------------
(* The table, and the upstreams themselves *)

\* build_table with the live table, and the swap: a name of both tables keeps
\* its breaker, a name of the new one only gets a new breaker.  The gauges of
\* the new table are published.
Swap(t) ==
  /\ reloads < MaxReloads
  /\ reloads' = reloads + 1
  /\ live' = t
  /\ LET g == [n \in Names |-> IF n \in DOMAIN t \ DOMAIN live THEN reloads + 1 ELSE gen[n]]
     IN gen' = g /\ gauge' = Publish(DOMAIN t, g)
  /\ UNCHANGED <<breakers, pending, spent, due, calls, mode>>

\* Fail mode of demo-upstream goes on or off; an upstream hangs or recovers.
Turn(n, m) ==
  /\ m \in Moods[n] /\ mode[n] # m
  /\ mode' = [mode EXCEPT ![n] = m]
  /\ UNCHANGED <<live, gen, breakers, gauge, pending, spent, due, calls, reloads>>

UpstreamsNext ==
  \/ StartRound
  \/ Second
  \/ \E p \in pending : ProbeEnds(p)
  \/ \E c \in Calling : End(c) \/ Abandon(c) \/ \E n \in Names : Begin(c, n)
  \/ \E t \in Tables : Swap(t)
  \/ \E n \in Names, m \in {"up", "failing", "hung"} : Turn(n, m)

\* Time passes, the health task runs and every call ends.
UpstreamsFairness ==
  /\ WF_uvars(StartRound)
  /\ WF_uvars(Second)
  /\ WF_uvars(\E p \in pending : ProbeEnds(p))
  /\ \A c \in Calling : WF_uvars(End(c) \/ Abandon(c))

-----------------------------------------------------------------------------

\* The verdict of the health checks follows the upstream: one that is probed
\* and stays bad for good, failing or hung, is shut off for good, and one that
\* stays well is let through for good, whatever the other upstreams do (a hung
\* one holds up a round for no longer than the timeout), whatever calls were
\* under way, and across reloads that drop it and bring it back (health_loop,
\* build_table).
Probed(n) == n \in DOMAIN live /\ live[n]
VerdictFollows ==
  \A n \in Names :
    /\ <>[](Probed(n) /\ mode[n] # "up") => <>[](breakers[n, gen[n]].state # "Closed")
    /\ <>[](Probed(n) /\ mode[n] = "up") => <>[](breakers[n, gen[n]].state = "Closed")

\* In the end /metrics tells the truth: every upstream of the live table is
\* shown with the state of its own breaker, without a gap, and none that was
\* dropped is shown; although calls that still hold the breaker of a dropped
\* upstream write under the same name (publish_gauges on every tick, and the
\* idle timeout of three intervals).
MetricsTellTheTruth ==
  <>[](\A n \in Names :
         Shown(n) = IF n \in DOMAIN live THEN breakers[n, gen[n]].state ELSE "absent")

=============================================================================
