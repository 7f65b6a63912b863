-------------------------------- MODULE Serve --------------------------------
(***************************************************************************)
(* The life of the process: main of crates/server/src/main.rs from the     *)
(* SIGHUP handler to the exit, serve of crates/server/src/lib.rs with its  *)
(* connections, the readiness of crates/server/src/admin.rs and the        *)
(* messages of crates/server/src/sd_notify.rs.                             *)
(*                                                                         *)
(* main and serve are one task; the SIGHUP task, every connection and the  *)
(* admin server are tasks of their own.  Timers elapse when they like.     *)
(***************************************************************************)
EXTENDS Integers, FiniteSets

CONSTANTS
  Conns,     \* the connections clients make
  Tls        \* does serve terminate TLS?

ASSUME ServeAssumption == IsFiniteSet(Conns) /\ Tls \in BOOLEAN

VARIABLES
  main,      \* where main is
  code,      \* how the process ended
  loop,      \* serve's accept loop: "accept" or "backoff"
  term,      \* SIGTERM or SIGINT waiting for the first listener
  second,    \* the second listener: "off", "on" or "signalled"
  draining,  \* what /readyz answers from
  expired,   \* has the drain run out of time?
  hup,       \* SIGHUP pending
  hangup,    \* the SIGHUP task: "off", "idle" or "reloading"
  unit,      \* the last message sent to systemd
  conns,     \* each connection's state
  watched    \* the connections that hold a watcher of GracefulShutdown

life    == <<main, code>>
signals == <<term, second>>
systemd == <<hup, hangup, unit>>
net     == <<conns, watched>>
svars   == <<life, loop, signals, draining, expired, systemd, net>>

Stages == {"starting", "spawned", "bound", "admin", "ready",
           "serving", "stopping", "delay", "drain", "exited"}

\* The proxy's listener, and the admin's.
Listening == main \in {"bound", "admin", "ready", "serving", "stopping", "delay"}

AdminUp == main \in {"admin", "ready", "serving", "stopping", "delay", "drain"}

\* /readyz answers 200.
Readyz == AdminUp /\ ~draining

\* serve's loop runs.
Looping == main \in {"serving", "stopping", "delay"}

IsOpen(c) == conns[c] \in {"handshake", "first", "busy", "idle"}

\* Types, and: serve waits for exactly the connections that are open, those
\* whose handshake is not over included (the watcher of lib.rs).
ServeTypeOK ==
  /\ main \in Stages /\ code \in {"none", "failed", "killed", "0", "130"}
  /\ conns \in [Conns -> {"none", "queued", "handshake", "first", "busy", "idle", "closed", "cut"}]
  /\ main # "exited" => watched = {c \in Conns : IsOpen(c)}

ServeInit ==
  /\ main = "starting" /\ code = "none"
  /\ loop = "accept"
  /\ term = FALSE /\ second = "off"
  /\ draining = FALSE /\ expired = FALSE
  /\ hup = FALSE /\ hangup = "off" /\ unit = "none"
  /\ conns = [c \in Conns |-> "none"]
  /\ watched = {}

\* The process ends; what is still open is cut.
Exit(how) ==
  /\ main' = "exited"
  /\ code' = how
  /\ conns' = [c \in Conns |-> IF IsOpen(c) THEN "cut" ELSE conns[c]]

-----------------------------------------------------------------------------
(* Startup *)

Startup(from, to) ==
  /\ main = from
  /\ \/ main' = to /\ UNCHANGED <<code, conns>>
     \/ Exit("failed")

\* TLS, configuration and table are loaded and the SIGHUP task is spawned.
SpawnHangup ==
  /\ Startup("starting", "spawned")
  /\ hangup' = IF main' = "spawned" THEN "idle" ELSE "off"
  /\ UNCHANGED <<loop, signals, draining, expired, hup, unit, watched>>

Bind ==
  /\ Startup("spawned", "bound")
  /\ UNCHANGED <<loop, signals, draining, expired, systemd, watched>>

BindAdmin ==
  /\ Startup("bound", "admin")
  /\ UNCHANGED <<loop, signals, draining, expired, systemd, watched>>

NotifyReady ==
  /\ main = "admin"
  /\ main' = "ready"
  /\ unit' = "ready"
  /\ UNCHANGED <<code, loop, signals, draining, expired, hup, hangup, net>>

\* The first poll of serve installs the handlers of SIGTERM and SIGINT.
StartServing ==
  /\ main = "ready"
  /\ main' = "serving"
  /\ UNCHANGED <<code, loop, signals, draining, expired, systemd, net>>

-----------------------------------------------------------------------------
(* Signals *)

\* Before the first listener: the default action.  Later: a listener that
\* exists remembers it, once; nobody does between the two listeners.
Terminate ==
  \/ /\ main \in {"starting", "spawned", "bound", "admin", "ready"}
     /\ Exit("killed")
     /\ UNCHANGED <<loop, signals, draining, expired, systemd, watched>>
  \/ /\ main = "serving" /\ ~term
     /\ term' = TRUE
     /\ UNCHANGED <<life, loop, second, draining, expired, systemd, net>>
  \/ /\ main \in {"stopping", "delay", "drain"} /\ second = "on"
     /\ second' = "signalled"
     /\ UNCHANGED <<life, loop, term, draining, expired, systemd, net>>

Hangup ==
  /\ main # "exited" /\ ~hup
  /\ hup' = TRUE
  /\ UNCHANGED <<life, loop, signals, draining, expired, hangup, unit, net>>

HangupReload ==
  /\ main # "exited" /\ hangup = "idle" /\ hup
  /\ hup' = FALSE
  /\ hangup' = "reloading"
  /\ unit' = "reloading"
  /\ UNCHANGED <<life, loop, signals, draining, expired, net>>

HangupReady ==
  /\ main # "exited" /\ hangup = "reloading"
  /\ hangup' = "idle"
  /\ unit' = "ready"
  /\ UNCHANGED <<life, loop, signals, draining, expired, hup, net>>

-----------------------------------------------------------------------------
(* Shutdown: the future polled by the accept loop, the second listener, the drain *)

BeginShutdown ==
  /\ main = "serving" /\ loop = "accept" /\ term
  /\ main' = "stopping"
  /\ term' = FALSE
  /\ unit' = "stopping"
  /\ UNCHANGED <<code, loop, second, draining, expired, hup, hangup, net>>

\* Mutant: readiness is left as it is.
KeepReadiness ==
  /\ main = "stopping"
  /\ main' = "delay"
  /\ UNCHANGED <<draining, code, loop, signals, expired, systemd, net>>

FlipReadiness ==
  /\ main = "stopping"
  /\ main' = "delay"
  /\ draining' = TRUE
  /\ UNCHANGED <<code, loop, signals, expired, systemd, net>>

\* second_signal, notified by the first, starts to listen.
ListenAgain ==
  /\ main \in {"stopping", "delay", "drain"} /\ second = "off"
  /\ second' = "on"
  /\ UNCHANGED <<life, loop, term, draining, expired, systemd, net>>

SecondSignal ==
  /\ main \in {"stopping", "delay", "drain"} /\ second = "signalled"
  /\ Exit("130")
  /\ UNCHANGED <<loop, signals, draining, expired, systemd, watched>>

\* shutdown_delay is over: the listener goes, with what was not accepted.
CloseListener ==
  /\ main = "delay" /\ loop = "accept"
  /\ main' = "drain"
  /\ conns' = [c \in Conns |-> IF conns[c] = "queued" THEN "closed" ELSE conns[c]]
  /\ UNCHANGED <<code, loop, signals, draining, expired, systemd, watched>>

Drained ==
  /\ main = "drain" /\ watched = {}
  /\ Exit("0")
  /\ UNCHANGED <<loop, signals, draining, expired, systemd, watched>>

\* Mutant: the drain waits for the last request.
DrainPatiently ==
  /\ main = "drain" /\ \A c \in watched : conns[c] # "busy"
  /\ Exit("0")
  /\ expired' = TRUE
  /\ UNCHANGED <<loop, signals, draining, systemd, watched>>

DrainTimeout ==
  /\ main = "drain"
  /\ Exit("0")
  /\ expired' = TRUE
  /\ UNCHANGED <<loop, signals, draining, systemd, watched>>

-----------------------------------------------------------------------------
(* Connections *)

Conn(c, to) == conns' = [conns EXCEPT ![c] = to]

\* The kernel completes a connection as soon as the listener is bound.
Arrive(c) ==
  /\ Listening /\ conns[c] = "none"
  /\ Conn(c, "queued")
  /\ UNCHANGED <<life, loop, signals, draining, expired, systemd, watched>>

Accept(c) ==
  /\ Looping /\ loop = "accept" /\ conns[c] = "queued"
  /\ Conn(c, IF Tls THEN "handshake" ELSE "first")
  /\ watched' = watched \cup {c}
  /\ UNCHANGED <<life, loop, signals, draining, expired, systemd>>

\* EMFILE and the like: the loop sleeps, and nothing in it is polled.
AcceptFails ==
  /\ Looping /\ loop = "accept"
  /\ loop' = "backoff"
  /\ UNCHANGED <<life, signals, draining, expired, systemd, net>>

BackoffOver ==
  /\ loop = "backoff"
  /\ loop' = "accept"
  /\ UNCHANGED <<life, signals, draining, expired, systemd, net>>

Handshake(c) ==
  /\ main # "exited" /\ conns[c] = "handshake"
  /\ Conn(c, "first")
  /\ UNCHANGED <<life, loop, signals, draining, expired, systemd, watched>>

\* A request is read: of a connection that waits for its first, or an idle one.
\* HTTP/2 takes requests until the peer has heard of the drain.
Request(c) ==
  /\ main # "exited" /\ conns[c] \in {"first", "idle"}
  /\ Conn(c, "busy")
  /\ UNCHANGED <<life, loop, signals, draining, expired, systemd, watched>>

Close(c) ==
  /\ Conn(c, "closed")
  /\ watched' = watched \ {c}
  /\ UNCHANGED <<life, loop, signals, draining, expired, systemd>>

\* The response is written; a connection that is asked to finish closes.
Respond(c) ==
  /\ main # "exited" /\ conns[c] = "busy"
  /\ \/ main # "drain" /\ Conn(c, "idle") /\ UNCHANGED <<life, loop, signals, draining, expired, systemd, watched>>
     \/ Close(c)

\* Mutant: the task of a failed handshake keeps its watcher.
HandshakeLeaks(c) ==
  /\ main # "exited" /\ conns[c] = "handshake"
  /\ Conn(c, "closed")
  /\ UNCHANGED <<life, loop, signals, draining, expired, systemd, watched>>

\* The handshake fails or takes longer than HANDSHAKE_TIMEOUT.
HandshakeFails(c) ==
  /\ main # "exited" /\ conns[c] = "handshake"
  /\ Close(c)

\* Mutant: the deadline does not ask whether there was a request.
DeadlineUnchecked(c) ==
  /\ main # "exited" /\ conns[c] \in {"first", "busy", "idle"}
  /\ Conn(c, IF conns[c] = "busy" THEN "cut" ELSE "closed")
  /\ watched' = watched \ {c}
  /\ UNCHANGED <<life, loop, signals, draining, expired, systemd>>

\* first_request_deadline
FirstRequestDeadline(c) ==
  /\ main # "exited" /\ conns[c] = "first"
  /\ Close(c)

\* keepalive_timeout, or the drain's request to finish, or the client.
IdleClose(c) ==
  /\ main # "exited" /\ conns[c] \in {"first", "idle"}
  /\ Close(c)

\* A client gives up during its request.
ClientCloses(c) ==
  /\ main # "exited" /\ conns[c] = "busy"
  /\ Close(c)

ConnStep(c) ==
  \/ Arrive(c) \/ Accept(c) \/ Handshake(c) \/ HandshakeFails(c)
  \/ FirstRequestDeadline(c) \/ Request(c) \/ Respond(c) \/ IdleClose(c) \/ ClientCloses(c)

MainStep ==
  \/ SpawnHangup \/ Bind \/ BindAdmin \/ NotifyReady \/ StartServing
  \/ BeginShutdown \/ FlipReadiness \/ CloseListener \/ Drained \/ DrainTimeout
  \/ ListenAgain \/ SecondSignal \/ AcceptFails \/ BackoffOver

ServeNext ==
  \/ MainStep
  \/ Terminate \/ Hangup \/ HangupReload \/ HangupReady
  \/ \E c \in Conns : ConnStep(c)

ServeSpec == ServeInit /\ [][ServeNext]_svars

\* main is run and its timers elapse.  select! takes its branches in random
\* order, so failing accepts cannot keep the shutdown future out for ever.
ServeFairness ==
  /\ WF_svars(FlipReadiness) /\ WF_svars(DrainTimeout) /\ WF_svars(BackoffOver)
  /\ SF_svars(BeginShutdown) /\ SF_svars(CloseListener)

FairServeSpec == ServeSpec /\ ServeFairness

-----------------------------------------------------------------------------

\* While /readyz answers 200 the proxy accepts connections: from before the
\* admin server is up until after readiness has been withdrawn (the order of
\* the binds, and of draining and the end of the delay, in main).
ReadyzMeansAccepting ==
  Readyz => Listening

\* Connections are cut only when the drain has run out of time or a second
\* signal came; a clean exit, or a deadline on the first request, never
\* interrupts a request or a handshake (serve, with its watchers).
OnlyShutdownCuts ==
  (\E c \in Conns : conns[c] = "cut") =>
    main = "exited" /\ (expired \/ code = "130")

\* A signal that was received ends the process, whatever the clients do and
\* however often accept fails (shutdown_delay and drain_timeout are bounds).
SignalEndsTheProcess ==
  term ~> main = "exited"

\* READY=1 is sent when both listeners are bound.
ReadyMeansBound ==
  unit = "ready" => (Listening /\ AdminUp) \/ main \in {"drain", "exited"}

=============================================================================
