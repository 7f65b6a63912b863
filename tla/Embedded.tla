------------------------------- MODULE Embedded -------------------------------
(***************************************************************************)
(* A proxy inside another program: start, Running and Running::shutdown of *)
(* examples/embedded/src/lib.rs, with its admin server (admin.rs) and the  *)
(* shutdown future it hands to serve.                                      *)
(*                                                                         *)
(* Every task is a task of the runtime; start and shutdown are run by the  *)
(* application.  Time is counted in seconds, and a second does not pass    *)
(* while a task has something to do.  The 100 ms for which serve sleeps    *)
(* after an accept that failed, deaf to its shutdown future, are taken for *)
(* a whole second.                                                         *)
(***************************************************************************)
EXTENDS Integers, Sequences, FiniteSets, FiniteSetsExt

CONSTANTS
  Bounds,    \* records [delay, drain] a configuration may set, in seconds
  Margin,    \* SHUTDOWN_MARGIN
  Clients,   \* connections clients may hold open
  MaxFails   \* bound: accepts of the proxy that fail

ASSUME EmbeddedAssumption ==
  /\ Margin \in Nat \ {0} /\ MaxFails \in 0..(Margin - 1)
  /\ \A b \in Bounds : b.delay \in Nat /\ b.drain \in Nat

VARIABLES
  app,       \* the application: a step of start, "running", the task that
             \* shutdown awaits, "returned" or "failed"
  bound,     \* the listeners that are bound
  task,      \* the tasks that start spawns
  stop,      \* the value of the watch channel
  settings,  \* shutdown_delay and drain_timeout of the live table
  serving,   \* the proxy task: "accept", "delay" or "drain"
  left,      \* seconds its timer has left
  open,      \* open connections, each a task of its own
  deadline,  \* seconds to the deadline of shutdown
  missed,    \* tasks that did not end in time
  reloaded,  \* was the table swapped after shutdown began?
  backoff,   \* seconds serve sleeps after an accept that failed
  fails      \* accepts that failed

slow  == <<backoff, fails>>
evars == <<app, bound, task, stop, settings, serving, left, open, deadline, missed, reloaded, slow>>

Steps == <<"load", "table", "tls", "bind", "bind admin", "watch">>
Awaits == <<"proxy", "admin", "upkeep">>
Tasks == {"health", "proxy", "admin", "upkeep"}

Awaiting == app \in {Awaits[i] : i \in DOMAIN Awaits}

After(seq, x, last) ==
  LET i == CHOOSE j \in DOMAIN seq : seq[j] = x
  IN IF i = Len(seq) THEN last ELSE seq[i + 1]

Task(t, to) == task' = [task EXCEPT ![t] = to]

EmbeddedInit ==
  /\ app = Steps[1]
  /\ bound = {}
  /\ task = [t \in Tasks |-> "none"]
  /\ stop = FALSE
  /\ settings \in Bounds
  /\ serving = "accept" /\ left = 0
  /\ open = {}
  /\ deadline = 0
  /\ missed = {}
  /\ reloaded = FALSE
  /\ backoff = 0 /\ fails = 0

-----------------------------------------------------------------------------
(* start *)

\* One fallible step.  After the last, every task is spawned at once.
StartStep ==
  /\ \E i \in DOMAIN Steps : app = Steps[i]
  /\ app' = After(Steps, app, "running")
  /\ bound' = bound \cup (CASE app = "bind"       -> {"proxy"}
                            [] app = "bind admin" -> {"admin"}
                            [] OTHER              -> {})
  /\ task' = IF app' = "running" THEN [t \in Tasks |-> "running"] ELSE task
  /\ UNCHANGED <<stop, settings, serving, left, open, deadline, missed, reloaded, slow>>

\* start returns an error; its listeners are dropped.
StartFails ==
  /\ \E i \in DOMAIN Steps : app = Steps[i]
  /\ app' = "failed"
  /\ bound' = {}
  /\ UNCHANGED <<task, stop, settings, serving, left, open, deadline, missed, reloaded, slow>>

-----------------------------------------------------------------------------
(* Running::shutdown *)

\* Mutant: the delay is taken for serve's business.
DrainBound == settings.drain + Margin

\* shutdown_bound, of the live table
ShutdownBound == settings.delay + settings.drain + Margin

\* Mutant: the health task is left to itself.
ShutdownKeepsHealth ==
  /\ app = "running"
  /\ app' = "proxy"
  /\ stop' = TRUE
  /\ deadline' = ShutdownBound
  /\ UNCHANGED <<bound, task, settings, serving, left, open, missed, reloaded, slow>>

\* The flag is set, the health task aborted and the deadline fixed.
Shutdown ==
  /\ app = "running"
  /\ app' = "proxy"
  /\ stop' = TRUE
  /\ Task("health", "aborting")
  /\ deadline' = ShutdownBound
  /\ UNCHANGED <<bound, settings, serving, left, open, missed, reloaded, slow>>

\* await_or_abort: the task ended ...
Joined(t) ==
  /\ app = t /\ task[t] = "done"
  /\ app' = After(Awaits, t, "returned")
  /\ UNCHANGED <<bound, task, stop, settings, serving, left, open, deadline, missed, reloaded, slow>>

\* ... or the deadline came first: abort it, and go on to the next.
GiveUpOn(t) ==
  /\ app = t /\ task[t] # "done" /\ deadline = 0
  /\ Task(t, "aborting")
  /\ missed' = missed \cup {t}
  /\ app' = After(Awaits, t, "returned")
  /\ UNCHANGED <<bound, stop, settings, serving, left, open, deadline, reloaded, slow>>

-----------------------------------------------------------------------------
(* The tasks *)

\* An abort takes effect at the task's next await; its listener goes with it.
Aborted(t) ==
  /\ task[t] = "aborting"
  /\ Task(t, "gone")
  /\ bound' = bound \ {t}
  /\ UNCHANGED <<app, stop, settings, serving, left, open, deadline, missed, reloaded, slow>>

\* The shutdown future of serve: the signal, then a sleep for the delay.
BeginDelay ==
  /\ task["proxy"] = "running" /\ serving = "accept" /\ backoff = 0 /\ stop
  /\ serving' = "delay"
  /\ left' = settings.delay
  /\ UNCHANGED <<app, bound, task, stop, settings, open, deadline, missed, reloaded, slow>>

\* serve closes the listener and drains.
BeginDrain ==
  /\ task["proxy"] = "running" /\ serving = "delay" /\ backoff = 0 /\ left = 0
  /\ serving' = "drain"
  /\ left' = settings.drain
  /\ bound' = bound \ {"proxy"}
  /\ UNCHANGED <<app, task, stop, settings, open, deadline, missed, reloaded, slow>>

\* The last connection closes, or drain_timeout is over; connections that are
\* still open are left to themselves.
EndDrain ==
  /\ task["proxy"] = "running" /\ serving = "drain"
  /\ open = {} \/ left = 0
  /\ Task("proxy", "done")
  /\ UNCHANGED <<app, bound, stop, settings, serving, left, open, deadline, missed, reloaded, slow>>

\* The loop of the admin server sees the flag; its listener is dropped ...
AdminStopped ==
  /\ task["admin"] = "running" /\ stop
  /\ Task("admin", "done")
  /\ bound' = bound \ {"admin"}
  /\ UNCHANGED <<app, stop, settings, serving, left, open, deadline, missed, reloaded, slow>>

\* ... and so does that of the upkeep.
UpkeepStopped ==
  /\ task["upkeep"] = "running" /\ stop
  /\ Task("upkeep", "done")
  /\ UNCHANGED <<app, bound, stop, settings, serving, left, open, deadline, missed, reloaded, slow>>

\* An accept fails, and the loop sleeps before it polls anything again.
AcceptFailed ==
  /\ task["proxy"] = "running" /\ serving # "drain" /\ backoff = 0
  /\ fails < MaxFails
  /\ fails' = fails + 1
  /\ backoff' = 1
  /\ UNCHANGED <<app, bound, task, stop, settings, serving, left, open, deadline, missed, reloaded>>

Connect(c) ==
  /\ task["proxy"] = "running" /\ serving # "drain" /\ backoff = 0 /\ c \notin open
  /\ open' = open \cup {c}
  /\ UNCHANGED <<app, bound, task, stop, settings, serving, left, deadline, missed, reloaded, slow>>

Disconnect(c) ==
  /\ c \in open
  /\ open' = open \ {c}
  /\ UNCHANGED <<app, bound, task, stop, settings, serving, left, deadline, missed, reloaded, slow>>

\* The watcher lives as long as Running does.
SwapSettings(b) ==
  /\ app = "running" \/ Awaiting
  /\ settings' = b
  /\ reloaded' = stop
  /\ UNCHANGED <<app, bound, task, stop, serving, left, open, deadline, missed, slow>>

-----------------------------------------------------------------------------

\* Someone can go on without waiting for time.
Busy ==
  \/ \E t \in Tasks : task[t] = "aborting"
  \/ \E t \in {"admin", "upkeep"} : task[t] = "running" /\ stop
  \/ task["proxy"] = "running" /\ CASE serving = "accept" -> stop /\ backoff = 0
                                    [] serving = "delay"  -> left = 0 /\ backoff = 0
                                    [] serving = "drain"  -> left = 0 \/ open = {}
  \/ Awaiting /\ (task[app] = "done" \/ deadline = 0)

Tick ==
  /\ ~Busy
  /\ left > 0 \/ deadline > 0 \/ backoff > 0
  /\ left' = Max({left - 1, 0})
  /\ deadline' = Max({deadline - 1, 0})
  /\ backoff' = 0
  /\ UNCHANGED <<app, bound, task, stop, settings, serving, open, missed, reloaded, fails>>

TaskStep ==
  \/ BeginDelay \/ BeginDrain \/ EndDrain \/ AdminStopped \/ UpkeepStopped
  \/ \E t \in Tasks : Aborted(t) \/ Joined(t) \/ GiveUpOn(t)

EmbeddedNext ==
  \/ StartStep \/ StartFails \/ Shutdown
  \/ TaskStep \/ AcceptFailed
  \/ Tick
  \/ \E c \in Clients : Connect(c) \/ Disconnect(c)
  \/ \E b \in Bounds \ {settings} : SwapSettings(b)

EmbeddedSpec == EmbeddedInit /\ [][EmbeddedNext]_evars

\* The runtime runs its tasks and time passes.
EmbeddedFairness == WF_evars(TaskStep) /\ WF_evars(Tick)

-----------------------------------------------------------------------------

\* A start that fails leaves no task and no listener behind, and so can be
\* tried again.  A shutdown that returns leaves no task running that was not
\* told to stop; and every task ends by itself, the proxy with its whole delay
\* and drain, unless a reload changed these after the deadline was fixed.
ShutdownIsOrderly ==
  /\ app = "failed" => bound = {} /\ \A t \in Tasks : task[t] = "none"
  /\ app = "returned" => \A t \in Tasks : task[t] # "running"
  /\ missed # {} => reloaded

\* shutdown returns, and in the end every task is gone and every listener
\* closed for good, even if clients hold their connections and reloads keep coming
\* (one deadline for all awaits; the abort of the health task).
ShutdownStopsEverything ==
  stop ~> [](app = "returned" /\ bound = {} /\ \A t \in Tasks : task[t] \in {"done", "gone"})

=============================================================================
