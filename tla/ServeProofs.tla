----------------------------- MODULE ServeProofs -----------------------------
(***************************************************************************)
(* Machine-checked proofs about the two ways the server is run: Serve, the *)
(* process, for any number of connections, with and without TLS; and       *)
(* Embedded, the proxy inside another program, for every delay, drain      *)
(* timeout and margin.                                                     *)
(***************************************************************************)
EXTENDS Serve, Embedded, TLAPS

-----------------------------------------------------------------------------
(* The process: the inductive invariant *)

Early == {"starting", "spawned", "bound", "admin", "ready"}

\* Before serve runs nothing has been accepted, so that a failing startup and
\* a signal without a listener cut nothing.
NothingAccepted == main \in Early => \A c \in Conns : ~IsOpen(c)

\* Readiness is withdrawn before the delay begins.
Withdrawn == main \in {"delay", "drain"} => draining

SInv ==
  /\ ServeTypeOK
  /\ NothingAccepted
  /\ Withdrawn
  /\ OnlyShutdownCuts

\* Initially there is no connection.
LEMMA SInvInit == ServeInit => SInv
  BY Zenon DEF ServeInit, SInv, ServeTypeOK, Stages, NothingAccepted, Withdrawn, OnlyShutdownCuts, IsOpen

-----------------------------------------------------------------------------
(* main *)

\* An exit with nothing open, or with a reason to cut what is.
LEMMA SInvExit ==
  ASSUME NEW how \in {"failed", "killed", "0", "130"}, SInv, Exit(how), main # "exited",
         \/ \A c \in Conns : ~IsOpen(c)
         \/ how = "130"
         \/ expired'
  PROVE  SInv'
<1>1. ServeTypeOK'
  BY Zenon DEF SInv, ServeTypeOK, Exit, Stages, IsOpen
<1>2. NothingAccepted' /\ Withdrawn'
  BY Zenon DEF Exit, NothingAccepted, Withdrawn, Early
<1>3. \A c \in Conns : conns[c] # "cut"
  BY Zenon DEF SInv, OnlyShutdownCuts
<1>4. OnlyShutdownCuts'
  BY <1>3, Zenon DEF Exit, OnlyShutdownCuts, SInv, ServeTypeOK
<1> QED
  BY <1>1, <1>2, <1>4, Zenon DEF SInv

\* A step of main that leaves the connections alone.
LEMMA SInvStage ==
  ASSUME SInv, UNCHANGED <<code, expired, net>>, main # "exited", main' \in Stages \ {"exited"},
         main' \in Early => main \in Early,
         main' \in {"delay", "drain"} => draining'
  PROVE  SInv'
<1>1. \A c \in Conns : IsOpen(c)' = IsOpen(c)
  BY Zenon DEF IsOpen, net
<1>2. ServeTypeOK'
  BY <1>1, Zenon DEF SInv, ServeTypeOK, net
<1>3. NothingAccepted' /\ Withdrawn'
  BY <1>1, Zenon DEF SInv, NothingAccepted, Withdrawn
<1>4. OnlyShutdownCuts'
  BY Zenon DEF SInv, OnlyShutdownCuts, net
<1> QED
  BY <1>2, <1>3, <1>4, Zenon DEF SInv

\* Startup, whether or not a step of it fails.
LEMMA SInvStartup ==
  SInv /\ (SpawnHangup \/ Bind \/ BindAdmin \/ NotifyReady \/ StartServing) => SInv'
<1> SUFFICES ASSUME SInv, SpawnHangup \/ Bind \/ BindAdmin \/ NotifyReady \/ StartServing
             PROVE  SInv'
  BY Zenon
<1>1. main \in Early /\ main # "exited"
  BY Zenon DEF SpawnHangup, Bind, BindAdmin, NotifyReady, StartServing, Startup, Early
<1>2. CASE Exit("failed")
  BY <1>1, <1>2, SInvExit, Zenon DEF SInv, NothingAccepted
<1>3. CASE ~Exit("failed")
  <2>1. UNCHANGED <<code, expired, net>> /\ main' \in {"spawned", "bound", "admin", "ready", "serving"}
    BY <1>3, Zenon DEF SpawnHangup, Bind, BindAdmin, NotifyReady, StartServing, Startup, net
  <2> QED
    BY <1>1, <2>1, SInvStage, Zenon DEF Stages
<1> QED
  BY <1>2, <1>3, Zenon

\* The steps of a shutdown up to the close of the listener.
LEMMA SInvShutdown ==
  SInv /\ (BeginShutdown \/ FlipReadiness \/ ListenAgain \/ AcceptFails) => SInv'
<1> SUFFICES ASSUME SInv, BeginShutdown \/ FlipReadiness \/ ListenAgain \/ AcceptFails PROVE SInv'
  BY Zenon
<1>1. UNCHANGED <<code, expired, net>>
  BY Zenon DEF BeginShutdown, FlipReadiness, ListenAgain, AcceptFails, life
<1>2. main # "exited" /\ main' \in {"serving", "stopping", "delay", "drain"}
  BY Zenon DEF BeginShutdown, FlipReadiness, ListenAgain, AcceptFails, Looping, life
<1>3. main' \in {"delay", "drain"} => draining'
  BY Zenon DEF SInv, Withdrawn, BeginShutdown, FlipReadiness, ListenAgain, AcceptFails, life
<1> QED
  BY <1>1, <1>2, <1>3, SInvStage, Zenon DEF Stages, Early

\* The listener closes, with the connections nobody accepted.
LEMMA SInvClose == SInv /\ CloseListener => SInv'
<1> SUFFICES ASSUME SInv, CloseListener PROVE SInv'
  BY Zenon
<1>1. conns' \in [Conns -> {"none", "queued", "handshake", "first", "busy", "idle", "closed", "cut"}]
      /\ \A c \in Conns : IsOpen(c)' = IsOpen(c) /\ (conns'[c] = "cut" => conns[c] = "cut")
  BY DEF SInv, ServeTypeOK, CloseListener, IsOpen
<1>2. ServeTypeOK'
  BY <1>1, Zenon DEF SInv, ServeTypeOK, CloseListener, Stages
<1>3. NothingAccepted' /\ Withdrawn'
  BY Zenon DEF SInv, NothingAccepted, Withdrawn, CloseListener, Early
<1>4. OnlyShutdownCuts'
  BY <1>1, Zenon DEF SInv, OnlyShutdownCuts, CloseListener
<1> QED
  BY <1>2, <1>3, <1>4, Zenon DEF SInv

\* The ends of the process: the last connection is gone, the drain has run
\* out of time, or a second signal came.
LEMMA SInvEnd == SInv /\ (Drained \/ DrainTimeout \/ SecondSignal) => SInv'
<1> SUFFICES ASSUME SInv, Drained \/ DrainTimeout \/ SecondSignal PROVE SInv'
  BY Zenon
<1>1. CASE Drained
  <2>1. \A c \in Conns : ~IsOpen(c)
    BY <1>1, Zenon DEF SInv, ServeTypeOK, Drained
  <2> QED
    BY <1>1, <2>1, SInvExit, Zenon DEF Drained
<1>2. CASE DrainTimeout
  BY <1>2, SInvExit, Zenon DEF DrainTimeout
<1>3. CASE SecondSignal
  BY <1>3, SInvExit, Zenon DEF SecondSignal
<1> QED
  BY <1>1, <1>2, <1>3, Zenon

-----------------------------------------------------------------------------
(* Signals, and steps that only concern the accept loop or systemd *)

\* A step that leaves main and the connections as they are.
LEMMA SInvAside == SInv /\ UNCHANGED <<life, draining, expired, net>> => SInv'
<1> SUFFICES ASSUME SInv, UNCHANGED <<life, draining, expired, net>> PROVE SInv'
  BY Zenon
<1>1. \A c \in Conns : IsOpen(c)' = IsOpen(c)
  BY Zenon DEF IsOpen, net
<1> QED
  BY <1>1, Zenon DEF SInv, ServeTypeOK, NothingAccepted, Withdrawn, OnlyShutdownCuts, life, net

\* Signals, wherever they find the process.
LEMMA SInvSignals ==
  SInv /\ (Terminate \/ Hangup \/ HangupReload \/ HangupReady \/ BackoffOver) => SInv'
<1> SUFFICES ASSUME SInv, Terminate \/ Hangup \/ HangupReload \/ HangupReady \/ BackoffOver
             PROVE  SInv'
  BY Zenon
<1>1. CASE main \in Early /\ Exit("killed")
  BY <1>1, SInvExit, Zenon DEF SInv, NothingAccepted, Early
<1>2. CASE ~(main \in Early /\ Exit("killed"))
  <2>1. UNCHANGED <<life, draining, expired, net>>
    BY <1>2, Zenon DEF Terminate, Hangup, HangupReload, HangupReady, BackoffOver, Early
  <2> QED
    BY <2>1, SInvAside, Zenon
<1> QED
  BY <1>1, <1>2, Zenon

-----------------------------------------------------------------------------
(* Connections *)

\* A connection moves, and is watched exactly while it is open.
LEMMA SInvConn ==
  ASSUME NEW c \in Conns,
         NEW to \in {"queued", "handshake", "first", "busy", "idle", "closed"},
         SInv, main # "exited", Conn(c, to), UNCHANGED <<life, draining, expired>>,
         to \in {"handshake", "first", "busy", "idle"} =>
            main \notin Early /\ watched' = watched \cup {c},
         to \notin {"handshake", "first", "busy", "idle"} => watched' = watched \ {c}
  PROVE  SInv'
<1>1. conns' \in [Conns -> {"none", "queued", "handshake", "first", "busy", "idle", "closed", "cut"}]
      /\ conns'[c] = to /\ \A d \in Conns \ {c} : conns'[d] = conns[d]
  BY Zenon DEF SInv, ServeTypeOK, Conn
<1>2. ServeTypeOK'
  BY <1>1, Zenon DEF SInv, ServeTypeOK, IsOpen, life
<1>3. NothingAccepted' /\ Withdrawn'
  BY <1>1, Zenon DEF SInv, NothingAccepted, Withdrawn, IsOpen, life
<1>4. OnlyShutdownCuts'
  BY <1>1, Zenon DEF SInv, OnlyShutdownCuts, life
<1> QED
  BY <1>2, <1>3, <1>4, Zenon DEF SInv

\* The life of a connection.
LEMMA SInvConnStep == ASSUME NEW c \in Conns PROVE SInv /\ ConnStep(c) => SInv'
<1> SUFFICES ASSUME SInv, ConnStep(c) PROVE SInv'
  BY Zenon
<1>1. main # "exited"
  BY Zenon DEF ConnStep, Arrive, Accept, Handshake, HandshakeFails, FirstRequestDeadline, Request,
         Respond, IdleClose, ClientCloses, Listening, Looping
<1>2. IsOpen(c) => main \notin Early
  BY Zenon DEF SInv, NothingAccepted
<1>3. IsOpen(c) <=> c \in watched
  BY <1>1, Zenon DEF SInv, ServeTypeOK
<1>4. CASE Arrive(c)
  <2>1. watched' = watched \ {c}
    BY <1>3, <1>4, Zenon DEF Arrive, IsOpen
  <2> QED
    BY <1>1, <1>4, <2>1, SInvConn, Zenon DEF Arrive
<1>5. CASE Accept(c)
  <2>1. main \notin Early
    BY <1>5, Zenon DEF Accept, Looping, Early
  <2> QED
    BY <1>1, <1>5, <2>1, SInvConn, Zenon DEF Accept
<1>6. CASE Handshake(c)
  <2>1. main \notin Early /\ watched' = watched \cup {c}
    BY <1>2, <1>3, <1>6, Zenon DEF Handshake, IsOpen
  <2> QED
    BY <1>1, <1>6, <2>1, SInvConn, Zenon DEF Handshake
<1>7. CASE Request(c)
  <2>1. main \notin Early /\ watched' = watched \cup {c}
    BY <1>2, <1>3, <1>7, Zenon DEF Request, IsOpen
  <2> QED
    BY <1>1, <1>7, <2>1, SInvConn, Zenon DEF Request
<1>8. CASE Close(c)
  BY <1>1, <1>8, SInvConn, Zenon DEF Close
<1>9. CASE Respond(c) /\ ~Close(c)
  <2>1. main \notin Early /\ watched' = watched \cup {c}
    BY <1>2, <1>3, <1>9, Zenon DEF Respond, IsOpen
  <2> QED
    BY <1>1, <1>9, <2>1, SInvConn, Zenon DEF Respond
<1> QED
  BY <1>4, <1>5, <1>6, <1>7, <1>8, <1>9, Zenon
  DEF ConnStep, HandshakeFails, FirstRequestDeadline, Respond, IdleClose, ClientCloses

-----------------------------------------------------------------------------
(* Theorems *)

\* The invariant holds throughout.
THEOREM ServeInvariance == ServeSpec => []SInv
<1>1. ServeInit => SInv
  BY SInvInit, Zenon
<1>2. SInv /\ [ServeNext]_svars => SInv'
  <2>1. SInv /\ UNCHANGED svars => SInv'
    BY SInvAside, Zenon DEF svars
  <2> QED
    BY <2>1, SInvStartup, SInvShutdown, SInvClose, SInvEnd, SInvSignals, SInvConnStep, Zenon
    DEF ServeNext, MainStep
<1> QED
  BY <1>1, <1>2, PTL DEF ServeSpec

\* serve waits for exactly the connections that are open, however many there
\* are and wherever in their handshake or request (the watchers of serve).
THEOREM WatchedMeansOpen == ServeSpec => []ServeTypeOK
<1>1. SInv => ServeTypeOK
  BY Zenon DEF SInv
<1> QED
  BY <1>1, ServeInvariance, PTL

\* While /readyz answers 200 the listener of the proxy is open (main).
THEOREM ReadinessIsHonest == ServeSpec => []ReadyzMeansAccepting
<1>1. SInv => ReadyzMeansAccepting
  BY Zenon DEF SInv, Withdrawn, ReadyzMeansAccepting, Readyz, AdminUp, Listening
<1> QED
  BY <1>1, ServeInvariance, PTL

\* No connection is cut unless the drain ran out of time or a second signal
\* came: not by a failing startup, a signal during it, or a clean exit (main,
\* serve).
THEOREM CutsAreExplained == ServeSpec => []OnlyShutdownCuts
<1>1. SInv => OnlyShutdownCuts
  BY Zenon DEF SInv
<1> QED
  BY <1>1, ServeInvariance, PTL

-----------------------------------------------------------------------------
(* The embedded proxy: the inductive invariant *)

Starting == {"load", "table", "tls", "bind", "bind admin", "watch"}

ETypes ==
  /\ app \in Starting \cup {"running", "proxy", "admin", "upkeep", "returned", "failed"}
  /\ task \in [Tasks -> {"none", "running", "aborting", "done", "gone"}]
  /\ stop \in BOOLEAN /\ reloaded \in BOOLEAN
  /\ settings \in Bounds
  /\ serving \in {"accept", "delay", "drain"}
  /\ left \in Nat /\ deadline \in Nat
  /\ backoff \in {0, 1} /\ fails \in 0..MaxFails /\ backoff <= fails

\* What the application has done so far and what its tasks may still do.
Phases ==
  /\ app \in Starting \cup {"running", "failed"} => ~stop /\ missed = {} /\ serving = "accept"
  /\ app \in Starting \cup {"failed"} => \A t \in Tasks : task[t] = "none"
  /\ app = "failed" => bound = {}
  /\ app = "running" => \A t \in Tasks : task[t] = "running"
  /\ app \in {"proxy", "admin", "upkeep", "returned"} => stop /\ task["health"] # "running"
  /\ app = "proxy" => task["proxy"] \in {"running", "done"}
  /\ app \in {"proxy", "admin"} => task["admin"] \in {"running", "done"}
  /\ app \in {"proxy", "admin", "upkeep"} => task["upkeep"] \in {"running", "done"}
  /\ app \in {"admin", "upkeep", "returned"} => task["proxy"] # "running"
  /\ app \in {"upkeep", "returned"} => task["admin"] # "running"
  /\ app = "returned" => task["upkeep"] # "running"

\* The time the proxy still needs by itself.
Needs ==
  CASE serving = "accept" -> settings.delay + settings.drain
    [] serving = "delay"  -> left + settings.drain
    [] serving = "drain"  -> left

\* The deadline leaves every task the time it needs, and the proxy time for
\* the accepts that may still fail.
InTime ==
  /\ stop /\ (task["admin"] = "running" \/ task["upkeep"] = "running") => deadline > 0
  /\ stop /\ ~reloaded /\ task["proxy"] = "running" =>
       deadline > Needs + backoff + (MaxFails - fails)
  /\ ~reloaded => missed = {}

EInv == ETypes /\ Phases /\ InTime

-----------------------------------------------------------------------------
(* The operators the model is built from *)

\* A timer that is counted down stays a natural number and loses one second.
LEMMA CountDown ==
  ASSUME NEW n \in Nat
  PROVE  Max({n - 1, 0}) = IF n > 0 THEN n - 1 ELSE 0
<1> DEFINE m == IF n > 0 THEN n - 1 ELSE 0
<1>1. m \in {n - 1, 0} /\ \A y \in {n - 1, 0} : m >= y
  OBVIOUS
<1>2. \A x \in {n - 1, 0} : (\A y \in {n - 1, 0} : x >= y) => x = m
  OBVIOUS
<1> QED
  BY <1>1, <1>2, Zenon DEF Max

\* The order in which shutdown awaits the tasks.
LEMMA AwaitOrder ==
  /\ After(Awaits, "proxy", "returned") = "admin"
  /\ After(Awaits, "admin", "returned") = "upkeep"
  /\ After(Awaits, "upkeep", "returned") = "returned"
<1>1. DOMAIN Awaits = 1..3 /\ Len(Awaits) = 3
  BY DEF Awaits
<1>2. Awaits[1] = "proxy" /\ Awaits[2] = "admin" /\ Awaits[3] = "upkeep"
  BY Zenon DEF Awaits
<1>3. (CHOOSE j \in DOMAIN Awaits : Awaits[j] = "proxy") = 1
  BY <1>1, <1>2
<1>4. (CHOOSE j \in DOMAIN Awaits : Awaits[j] = "admin") = 2
  BY <1>1, <1>2
<1>5. (CHOOSE j \in DOMAIN Awaits : Awaits[j] = "upkeep") = 3
  BY <1>1, <1>2
<1> QED
  BY <1>1, <1>2, <1>3, <1>4, <1>5 DEF After

\* A step of start leads to the next one, or to the running proxy.
LEMMA StartOrder ==
  ASSUME NEW i \in DOMAIN Steps
  PROVE  Steps[i] \in Starting /\ After(Steps, Steps[i], "running") \in Starting \cup {"running"}
<1>1. DOMAIN Steps = 1..6 /\ Len(Steps) = 6
  BY DEF Steps
<1>2. \A j \in 1..6 : Steps[j] \in Starting
  <2>1. /\ Steps[1] = "load" /\ Steps[2] = "table" /\ Steps[3] = "tls"
        /\ Steps[4] = "bind" /\ Steps[5] = "bind admin" /\ Steps[6] = "watch"
    BY Zenon DEF Steps
  <2>2. \A j \in 1..6 : j \in {1, 2, 3, 4, 5, 6}
    OBVIOUS
  <2> QED
    BY <2>1, <2>2, Zenon DEF Starting
<1> DEFINE k == CHOOSE j \in DOMAIN Steps : Steps[j] = Steps[i]
<1>3. k \in DOMAIN Steps
  BY Zenon
<1>4. k = Len(Steps) \/ k + 1 \in 1..6
  BY <1>1, <1>3
<1> QED
  BY <1>1, <1>2, <1>3, <1>4, Zenon DEF After

-----------------------------------------------------------------------------
(* The invariant holds at first and every step preserves it *)

\* start has done nothing yet.
LEMMA EInvInit == EmbeddedInit => EInv
<1> SUFFICES ASSUME EmbeddedInit PROVE EInv
  BY Zenon
<1>1. app = "load"
  BY Zenon DEF EmbeddedInit, Steps
<1>2. 0 \in 0..MaxFails /\ 0 <= 0
  BY EmbeddedAssumption
<1> QED
  BY <1>1, <1>2, Zenon DEF EmbeddedInit, EInv, ETypes, Phases, InTime, Starting, Tasks

\* A step of start, whether it succeeds or fails.
LEMMA EInvStart == EInv /\ (StartStep \/ StartFails) => EInv'
<1> SUFFICES ASSUME EInv, StartStep \/ StartFails PROVE EInv'
  BY Zenon
<1> USE DEF EInv
<1>1. app \in Starting
  BY StartOrder, Zenon DEF StartStep, StartFails
<1>2. ~stop /\ missed = {} /\ serving = "accept" /\ \A t \in Tasks : task[t] = "none"
  BY <1>1, Zenon DEF Phases
<1>3. CASE StartStep
  <2>1. app' \in Starting \cup {"running"}
    BY <1>3, StartOrder, Zenon DEF StartStep
  <2>2. ETypes'
    BY <1>3, <2>1, Zenon DEF ETypes, StartStep, Tasks, slow
  <2>3. Phases'
    BY <1>2, <1>3, <2>1, Zenon DEF ETypes, Phases, StartStep, Starting
  <2>4. InTime'
    BY <1>2, <1>3, Zenon DEF InTime, StartStep, slow
  <2> QED
    BY <2>2, <2>3, <2>4, Zenon
<1>4. CASE StartFails
  BY <1>2, <1>4, Zenon DEF ETypes, Phases, InTime, StartFails, slow, Starting
<1> QED
  BY <1>3, <1>4, Zenon

\* The call of shutdown fixes a deadline with room for everyone.
LEMMA EInvShutdown == EInv /\ Shutdown => EInv'
<1> SUFFICES ASSUME EInv, Shutdown PROVE EInv'
  BY Zenon
<1> USE DEF EInv
<1>1. /\ ~stop /\ missed = {} /\ serving = "accept"
      /\ \A t \in Tasks : task[t] = "running"
  BY Zenon DEF Phases, Shutdown
<1>2. /\ settings.delay \in Nat /\ settings.drain \in Nat /\ Margin \in Nat \ {0}
      /\ MaxFails \in Nat /\ MaxFails < Margin
  BY EmbeddedAssumption DEF ETypes
<1>3. ETypes'
  BY <1>2 DEF ETypes, Shutdown, ShutdownBound, Task, Tasks, slow
<1>4. Phases'
  BY <1>1, Zenon DEF ETypes, Phases, Shutdown, Task, Tasks, Starting
<1>5. InTime'
  BY <1>1, <1>2 DEF ETypes, InTime, Needs, Shutdown, ShutdownBound, slow
<1> QED
  BY <1>3, <1>4, <1>5, Zenon

\* shutdown joins a task, or gives up on one that a reload has delayed.
LEMMA EInvAwait == ASSUME NEW t \in Tasks PROVE EInv /\ (Joined(t) \/ GiveUpOn(t)) => EInv'
<1> SUFFICES ASSUME EInv, Joined(t) \/ GiveUpOn(t) PROVE EInv'
  BY Zenon
<1> USE DEF EInv
<1>1. t \in {"proxy", "admin", "upkeep"} /\ app = t /\ stop
  BY Zenon DEF ETypes, Phases, Joined, GiveUpOn, Tasks, Starting
<1>2. app' \in {"admin", "upkeep", "returned"}
      /\ (t = "proxy" => app' = "admin") /\ (t = "admin" => app' = "upkeep")
      /\ (t = "upkeep" => app' = "returned")
  BY <1>1, AwaitOrder, Zenon DEF Joined, GiveUpOn
<1>3. CASE Joined(t)
  BY <1>1, <1>2, <1>3, ZenonT(40) DEF ETypes, Phases, InTime, Needs, Joined, Starting, Tasks, slow
<1>4. CASE GiveUpOn(t)
  <2>1. task[t] = "running" /\ deadline = 0
    BY <1>1, <1>4, Zenon DEF Phases, GiveUpOn
  <2>2. settings.delay \in Nat /\ settings.drain \in Nat /\ MaxFails \in Nat
    BY EmbeddedAssumption DEF ETypes
  <2>3. reloaded
    BY <1>1, <2>1, <2>2 DEF ETypes, InTime, Needs
  <2>4. ETypes'
    BY <1>2, <1>4, Zenon DEF ETypes, GiveUpOn, Task, slow
  <2>5. Phases'
    BY <1>1, <1>2, <1>4, Zenon DEF ETypes, Phases, GiveUpOn, Task, Starting, Tasks
  <2>6. InTime'
    BY <1>1, <1>4, <2>3, Zenon DEF ETypes, InTime, GiveUpOn, Task, Tasks, slow
  <2> QED
    BY <2>4, <2>5, <2>6, Zenon
<1> QED
  BY <1>3, <1>4, Zenon

\* A task ends, by itself or because it was aborted.
LEMMA EInvTaskEnds ==
  ASSUME NEW t \in Tasks
  PROVE  EInv /\ (Aborted(t) \/ AdminStopped \/ UpkeepStopped \/ EndDrain) => EInv'
<1> SUFFICES ASSUME EInv, Aborted(t) \/ AdminStopped \/ UpkeepStopped \/ EndDrain PROVE EInv'
  BY Zenon
<1> USE DEF EInv
<1>1. CASE Aborted(t)
  <2>1. app \notin Starting \cup {"running", "failed"}
    BY <1>1, Zenon DEF Phases, Aborted
  <2> QED
    BY <1>1, <2>1, ZenonT(40) DEF ETypes, Phases, InTime, Needs, Aborted, Task, Tasks, slow
<1>2. CASE AdminStopped \/ UpkeepStopped
  <2>1. app \notin Starting \cup {"running", "failed"}
    BY <1>2, Zenon DEF Phases, AdminStopped, UpkeepStopped, Tasks
  <2> QED
    BY <1>2, <2>1 DEF ETypes, Phases, InTime, Needs, AdminStopped, UpkeepStopped, Task, Tasks, slow
<1>3. CASE EndDrain
  <2>1. app \notin Starting \cup {"running", "failed"}
    BY <1>3, Zenon DEF Phases, EndDrain
  <2> QED
    BY <1>3, <2>1, Zenon DEF ETypes, Phases, InTime, Needs, EndDrain, Task, Tasks, slow
<1> QED
  BY <1>1, <1>2, <1>3, Zenon

\* The proxy goes on to its delay and to its drain.
LEMMA EInvServing == EInv /\ (BeginDelay \/ BeginDrain) => EInv'
<1> SUFFICES ASSUME EInv, BeginDelay \/ BeginDrain PROVE EInv'
  BY Zenon
<1> USE DEF EInv
<1>1. settings.delay \in Nat /\ settings.drain \in Nat /\ Margin \in Nat
  BY EmbeddedAssumption, Zenon DEF ETypes
<1>2. app \notin Starting \cup {"running", "failed"}
  BY Zenon DEF Phases, BeginDelay, BeginDrain
<1>3. CASE BeginDelay
  BY <1>1, <1>2, <1>3, Zenon DEF ETypes, Phases, InTime, Needs, BeginDelay, slow
<1>4. CASE BeginDrain
  BY <1>1, <1>2, <1>4 DEF ETypes, Phases, InTime, Needs, BeginDrain, slow
<1> QED
  BY <1>3, <1>4, Zenon

\* A second passes: never while a task has something to do, so that the
\* proxy's timer runs down as fast as the deadline.
LEMMA EInvTick == EInv /\ Tick => EInv'
<1> SUFFICES ASSUME EInv, Tick PROVE EInv'
  BY Zenon
<1> USE DEF EInv
<1>1. /\ left' = IF left > 0 THEN left - 1 ELSE 0
      /\ deadline' = IF deadline > 0 THEN deadline - 1 ELSE 0
  BY CountDown, Zenon DEF ETypes, Tick
<1>2. settings.delay \in Nat /\ settings.drain \in Nat /\ Margin \in Nat \ {0}
      /\ MaxFails \in Nat /\ MaxFails < Margin
  BY EmbeddedAssumption DEF ETypes
<1>3. ETypes' /\ Phases'
  BY <1>1 DEF ETypes, Phases, Tick
<1>4. ~(stop /\ (task["admin"] = "running" \/ task["upkeep"] = "running"))
  BY Zenon DEF Tick, Busy
<1>5. stop /\ task["proxy"] = "running" =>
        /\ backoff > 0 \/ (serving \in {"delay", "drain"} /\ left > 0)
        /\ serving = "drain" => left > 0
  <2> SUFFICES ASSUME stop, task["proxy"] = "running"
               PROVE  /\ backoff > 0 \/ (serving \in {"delay", "drain"} /\ left > 0)
                      /\ serving = "drain" => left > 0
    BY Zenon
  <2>1. left \in Nat /\ serving \in {"accept", "delay", "drain"} /\ backoff \in {0, 1}
    BY Zenon DEF ETypes
  <2>2. ~CASE serving = "accept" -> stop /\ backoff = 0
           [] serving = "delay"  -> left = 0 /\ backoff = 0
           [] serving = "drain"  -> left = 0 \/ open = {}
    BY Zenon DEF Tick, Busy
  <2>3. /\ serving = "accept" => backoff # 0
        /\ serving = "delay" => left # 0 \/ backoff # 0
        /\ serving = "drain" => left # 0
    BY <2>2, Zenon
  <2> QED
    BY <2>1, <2>3
<1>6. MaxFails - fails \in Nat /\ (MaxFails - fails)' = MaxFails - fails /\ backoff' = 0
  BY <1>2 DEF ETypes, Tick
<1>7. InTime'
  BY <1>1, <1>2, <1>4, <1>5, <1>6 DEF ETypes, InTime, Needs, Tick
<1> QED
  BY <1>3, <1>7, Zenon

\* Clients come and go.
LEMMA EInvOutside ==
  ASSUME NEW c \in Clients
  PROVE  EInv /\ (Connect(c) \/ Disconnect(c)) => EInv'
<1> SUFFICES ASSUME EInv, Connect(c) \/ Disconnect(c) PROVE EInv'
  BY Zenon
<1> QED
  BY DEF EInv, ETypes, Phases, InTime, Needs, Connect, Disconnect, slow

\* An accept that fails takes its time out of the margin.
LEMMA EInvFailed == EInv /\ AcceptFailed => EInv'
<1> SUFFICES ASSUME EInv, AcceptFailed PROVE EInv'
  BY Zenon
<1>1. MaxFails \in Nat
  BY EmbeddedAssumption
<1>2. ETypes' /\ Phases'
  BY <1>1 DEF EInv, ETypes, Phases, AcceptFailed
<1>3. backoff' + (MaxFails - fails') = backoff + (MaxFails - fails)
  BY <1>1 DEF EInv, ETypes, AcceptFailed
<1>4. Needs' = Needs
  BY Zenon DEF AcceptFailed, Needs
<1>5. Needs \in Nat /\ settings.delay \in Nat /\ settings.drain \in Nat
  BY EmbeddedAssumption DEF EInv, ETypes, Needs
<1>6. InTime'
  BY <1>1, <1>3, <1>4, <1>5 DEF EInv, ETypes, InTime, AcceptFailed
<1> QED
  BY <1>2, <1>6, Zenon DEF EInv

\* A reload either comes before shutdown reads the table, or is noted.
LEMMA EInvSwap == ASSUME NEW b \in Bounds PROVE EInv /\ SwapSettings(b) => EInv'
<1> SUFFICES ASSUME EInv, SwapSettings(b) PROVE EInv'
  BY Zenon
<1>1. CASE stop
  BY <1>1, Zenon DEF EInv, ETypes, Phases, InTime, SwapSettings, slow
<1>2. CASE ~stop
  BY <1>2, Zenon DEF EInv, ETypes, Phases, InTime, SwapSettings, slow, Starting
<1> QED
  BY <1>1, <1>2, Zenon DEF EInv, ETypes

\* Nothing happens.
LEMMA EInvStutter == EInv /\ UNCHANGED evars => EInv'
  BY DEF EInv, ETypes, Phases, InTime, Needs, evars, slow

-----------------------------------------------------------------------------
(* The theorem *)

\* Whatever the delay, the drain timeout and the margin: a start that fails
\* leaves nothing behind, a shutdown that returns leaves nothing running that
\* was not told to stop, and no task of an embedded proxy is cut short unless
\* a reload came in during the shutdown (start, Running::shutdown,
\* shutdown_bound, await_or_abort).
THEOREM OrderlyShutdown == EmbeddedSpec => []ShutdownIsOrderly
<1>1. EmbeddedInit => EInv
  BY EInvInit, Zenon
<1>2. EInv /\ [EmbeddedNext]_evars => EInv'
  BY EInvStart, EInvShutdown, EInvAwait, EInvTaskEnds, EInvServing, EInvTick, EInvOutside,
     EInvFailed, EInvSwap, EInvStutter, Zenon DEF EmbeddedNext, TaskStep, Tasks
<1>3. EInv => ShutdownIsOrderly
  BY Zenon DEF EInv, ETypes, Phases, InTime, ShutdownIsOrderly, Tasks
<1> QED
  BY <1>1, <1>2, <1>3, PTL DEF EmbeddedSpec

=============================================================================
