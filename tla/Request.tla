------------------------------- MODULE Request -------------------------------
(***************************************************************************)
(* One proxied request of crates/server/src/proxy.rs: the handler, the     *)
(* streamed request body with its deadlines, and the upstream timer.  The  *)
(* handler runs in one task; hyper's connection task polls the body in     *)
(* another.  The client and the upstream do as they please.  What the two  *)
(* tasks share they access with one atomic after the other, so each access *)
(* is a step of its own; no time passes while a task runs.                 *)
(*                                                                         *)
(* The question is what becomes of the breaker's ticket: whose fault the   *)
(* proxy thinks a failure was, and whether the ticket is settled at all.   *)
(* Timers are what is left of them, so that time never runs out.           *)
(***************************************************************************)
EXTENDS Integers, FiniteSets, FiniteSetsExt

CONSTANTS
  UpstreamTimeout,   \* upstream_timeout
  IdleTimeout,       \* request_body_idle_timeout
  TotalTimeout,      \* request_body_timeout
  ThetaCap,          \* the one second that caps theta
  MaxFrames,         \* frames of a request body (bound)
  Buffer,            \* frames hyper buffers for the upstream
  Off                \* a timer that is not armed

ASSUME TimeoutsAssumption ==
  /\ {UpstreamTimeout, IdleTimeout, TotalTimeout, ThetaCap, Buffer} \subseteq Nat \ {0}
  /\ MaxFrames \in Nat
  /\ Off \notin Int

\* Why a request may be answered without going upstream, in the order of the
\* checks, with the status of the answer.
Refusals == << <<"local_health", 200>>, <<"bad_path", 400>>, <<"bad_host", 400>>,
               <<"no_route", 404>>, <<"bad_strip", 400>>, <<"upgrade", 501>>,
               <<"circuit_open", 503>> >>

\* Failures to rewrite the URI, found when the ticket is already held.
BadRewrites == << <<"bad_query", 400>>, <<"bad_uri", 502>> >>

VARIABLES
  handler,     \* "start", "sending" (suspended), "checking" or "judging"
               \* (between two atomics), "done" or "dropped"
  streaming,   \* handle_streaming, or the legacy handle
  faults,      \* which of the refusals apply
  status,      \* the status answered, 0 before
  ticket,      \* "none", "held", "success", "failure" or "released"
  bodyless,    \* is_end_stream at the start
  sized,       \* does the body announce its length?
  left,        \* frames the client has yet to send
  avail,       \* frames arrived and not yet read
  client,      \* "sending", "ended" or "gone"
  connected,   \* has hyper a connection to the upstream?
  buffered,    \* frames read and not yet taken by the upstream
  body,        \* "open", "eos" (end signalled), "timed_out" or "broken"
  poll,        \* the next step of poll_frame: "idle", "begun", "frame", "over"
               \* or "pending"
  polled, waiting,        \* BodyState
  stall, longest,         \* BodyState: age of the current stall, longest one
  ending,                 \* a stall swapped out and not yet in longest
  since,                  \* the stall that client_stalled has loaded
  idleLeft, totalLeft,    \* deadlines of the body
  timer, timerLeft,       \* "window", "final" or "never"
  result,                 \* of client.request
  turn,        \* how long the upstream has had the next move, up to its timeout (ghost)
  truth        \* the longest the client was waited for, and the current wait (ghost)

input  == <<streaming, faults>>
upload == <<bodyless, sized, left, avail, client>>
hyper  == <<connected, buffered, result>>
flags  == <<poll, polled, waiting>>
stalls == <<stall, longest, ending>>
timers == <<idleLeft, totalLeft, timer, timerLeft>>
ghosts == <<turn, truth>>
verdict == <<handler, status, ticket, since>>
qvars  == <<verdict, input, upload, hyper, body, flags, stalls, timers, ghosts>>

Theta == Min({IdleTimeout \div 2, ThetaCap})

Cap == Max({UpstreamTimeout, IdleTimeout, TotalTimeout, ThetaCap})

Older(a) == IF a = Off THEN Off ELSE Min({a + 1, Cap})

Shorter(t) == IF t = Off THEN Off ELSE Max({t - 1, 0})

RequestInit ==
  /\ handler = "start" /\ status = 0 /\ ticket = "none"
  /\ streaming \in BOOLEAN
  /\ faults \in {{}} \cup {{Refusals[i][1], Refusals[j][1]} : i, j \in DOMAIN Refusals}
                      \cup {{BadRewrites[i][1]} : i \in DOMAIN BadRewrites}
  /\ left \in 0..MaxFrames /\ avail = 0
  /\ sized \in BOOLEAN
  /\ bodyless = (left = 0)
  /\ client = IF left = 0 THEN "ended" ELSE "sending"
  /\ connected = FALSE /\ buffered = 0 /\ result = "none"
  /\ body = "open"
  /\ poll = "idle" /\ polled = FALSE /\ waiting = FALSE
  /\ stall = Off /\ longest = 0 /\ ending = Off /\ since = Off
  /\ idleLeft = Off /\ totalLeft = TotalTimeout
  /\ timer = "window" /\ timerLeft = UpstreamTimeout
  /\ turn = 0 /\ truth = [longest |-> 0, current |-> 0]

-----------------------------------------------------------------------------
(* handle_core up to the sending of the request *)

FirstOf(list) == Min({k \in DOMAIN list : list[k][1] \in faults})

Applies(list) == \E k \in DOMAIN list : list[k][1] \in faults

Answer(code, settled) ==
  /\ handler' = "done"
  /\ status' = code
  /\ ticket' = settled
  /\ since' = Off

Refuse ==
  /\ handler = "start"
  /\ Applies(Refusals)
  /\ Answer(Refusals[FirstOf(Refusals)][2], "none")
  /\ UNCHANGED <<input, upload, hyper, body, flags, stalls, timers, ghosts>>

\* try_acquire grants a ticket, but the request cannot be rewritten.
AcquireInVain ==
  /\ handler = "start"
  /\ ~Applies(Refusals) /\ Applies(BadRewrites)
  /\ Answer(BadRewrites[FirstOf(BadRewrites)][2], "released")
  /\ UNCHANGED <<input, upload, hyper, body, flags, stalls, timers, ghosts>>

\* try_acquire grants a ticket, the body is wrapped (its end is signalled at
\* once if it is empty) and the request is sent under the timer.
Acquire ==
  /\ handler = "start"
  /\ ~Applies(Refusals) /\ ~Applies(BadRewrites)
  /\ handler' = "sending"
  /\ ticket' = "held"
  /\ body' = IF bodyless THEN "eos" ELSE "open"
  /\ timer' = IF streaming THEN "window" ELSE "final"
  /\ UNCHANGED <<status, since, input, upload, hyper, flags, stalls, idleLeft, totalLeft, timerLeft, ghosts>>

\* The handler waits for the upstream, or runs to see whether to wait on.
Sending == handler \in {"sending", "checking", "judging"}

Suspended == handler = "sending"

-----------------------------------------------------------------------------
(* The client and the upstream *)

ClientSends ==
  /\ Sending /\ client = "sending" /\ left > 0
  /\ left' = left - 1
  /\ avail' = avail + 1
  /\ client' = IF sized /\ left = 1 THEN "ended" ELSE "sending"
  /\ truth' = [truth EXCEPT !.current = 0]
  /\ UNCHANGED <<verdict, input, bodyless, sized, hyper, body, flags, stalls, timers, turn>>

\* The end of a chunked body comes after its last frame.
ClientEnds ==
  /\ Sending /\ client = "sending" /\ left = 0
  /\ client' = "ended"
  /\ UNCHANGED <<verdict, input, bodyless, sized, left, avail, hyper, body, flags, stalls, timers, ghosts>>

ClientBreaksOff ==
  /\ Sending /\ client = "sending"
  /\ client' = "gone"
  /\ UNCHANGED <<verdict, input, bodyless, sized, left, avail, hyper, body, flags, stalls, timers, ghosts>>

Connect ==
  /\ Sending /\ ~connected /\ result = "none"
  /\ connected' = TRUE
  /\ UNCHANGED <<verdict, input, upload, buffered, result, body, flags, stalls, timers, ghosts>>

UpstreamReads ==
  /\ Sending /\ buffered > 0
  /\ buffered' = buffered - 1
  /\ UNCHANGED <<verdict, input, upload, connected, result, body, flags, stalls, timers, ghosts>>

\* A response head, of a status the breaker holds against the upstream or not.
UpstreamAnswers ==
  /\ Sending /\ connected /\ result = "none"
  /\ result' \in {"ok", "gateway"}
  /\ UNCHANGED <<verdict, input, upload, connected, buffered, body, flags, stalls, timers, ghosts>>

\* The connection cannot be made, or breaks.
UpstreamFails ==
  /\ Sending /\ result = "none"
  /\ result' = "error"
  /\ UNCHANGED <<verdict, input, upload, connected, buffered, body, flags, stalls, timers, ghosts>>

-----------------------------------------------------------------------------
(* RequestBody, polled by hyper's connection task while its buffer has room *)

CanPoll ==
  /\ Sending /\ connected /\ body = "open" /\ poll = "idle"
  /\ buffered < Buffer

\* The body has news for the connection task, or is being polled.
PollDue ==
  \/ poll # "idle"
  \/ /\ CanPoll
     /\ \/ avail > 0 \/ client # "sending"
        \/ streaming /\ (~waiting \/ 0 \in {idleLeft, totalLeft})

PollBegin ==
  /\ CanPoll /\ streaming
  /\ polled' = TRUE
  /\ IF totalLeft = 0
     THEN body' = "timed_out" /\ UNCHANGED poll
     ELSE poll' = "begun" /\ UNCHANGED body
  /\ UNCHANGED <<verdict, input, upload, hyper, waiting, stalls, timers, ghosts>>

\* stall_ended: a swap ...
StallEnded ==
  /\ stall' = Off
  /\ ending' = stall
  /\ UNCHANGED longest

\* Mutant: a frame does not restart the idle timeout.
PollFrameKeepsIdle ==
  /\ Sending /\ poll = "begun"
  /\ avail > 0
  /\ avail' = avail - 1
  /\ idleLeft' = idleLeft
  /\ StallEnded
  /\ poll' = "frame"
  /\ UNCHANGED <<verdict, input, bodyless, sized, left, client, hyper, body, polled, waiting,
                 totalLeft, timer, timerLeft, ghosts>>

PollFrame ==
  /\ Sending /\ poll = "begun"
  /\ avail > 0
  /\ avail' = avail - 1
  /\ idleLeft' = Off
  /\ StallEnded
  /\ poll' = "frame"
  /\ UNCHANGED <<verdict, input, bodyless, sized, left, client, hyper, body, polled, waiting,
                 totalLeft, timer, timerLeft, ghosts>>

PollOver ==
  /\ Sending /\ poll = "begun"
  /\ avail = 0 /\ client # "sending"
  /\ StallEnded
  /\ poll' = "over"
  /\ UNCHANGED <<verdict, input, upload, hyper, body, polled, waiting, timers, ghosts>>

\* Mutant: only the latest stall is kept.
StallForgotten ==
  /\ Sending /\ ending # Off
  /\ longest' = ending
  /\ ending' = Off
  /\ UNCHANGED <<verdict, input, upload, hyper, body, flags, stall, timers, ghosts>>

\* ... and then a fetch_max.
StallMax ==
  /\ Sending /\ ending # Off
  /\ longest' = Max({longest, ending})
  /\ ending' = Off
  /\ UNCHANGED <<verdict, input, upload, hyper, body, flags, stall, timers, ghosts>>

\* A frame for hyper; signal_if_done knows the last one of a sized body ...
GiveFrame ==
  /\ buffered' = buffered + 1
  /\ body' = IF sized /\ avail' = 0 /\ client = "ended" THEN "eos" ELSE "open"

\* ... and after the last one of a chunked body comes the end, or an error.
GiveEnd ==
  /\ body' = IF client = "ended" THEN "eos" ELSE "broken"
  /\ UNCHANGED buffered

\* Nobody waits for the client any more.  (The end is signalled just after
\* the flag is cleared; the timer, which reads the flag only with the signal
\* out of sight, cannot tell.)
PollReturn ==
  /\ Sending /\ poll \in {"frame", "over"} /\ ending = Off
  /\ waiting' = FALSE
  /\ poll' = "idle"
  /\ UNCHANGED avail
  /\ IF poll = "frame" THEN GiveFrame ELSE GiveEnd
  /\ UNCHANGED <<verdict, input, bodyless, sized, left, client, connected, result, polled,
                 stalls, timers, ghosts>>

PollPending ==
  /\ Sending /\ poll = "begun"
  /\ avail = 0 /\ client = "sending"
  /\ waiting' = TRUE
  /\ poll' = "pending"
  /\ UNCHANGED <<verdict, input, upload, hyper, body, polled, stalls, timers, ghosts>>

\* The compare_exchange on stall_since, and the idle timer.
PollWait ==
  /\ Sending /\ poll = "pending"
  /\ stall' = IF stall = Off THEN 0 ELSE stall
  /\ idleLeft' = IF idleLeft = Off THEN IdleTimeout ELSE idleLeft
  /\ body' = IF idleLeft = 0 THEN "timed_out" ELSE "open"
  /\ poll' = "idle"
  /\ UNCHANGED <<verdict, input, upload, hyper, polled, waiting, longest, ending,
                 totalLeft, timer, timerLeft, ghosts>>

\* The legacy handler passes the client's body on as it is.
PollLegacy ==
  /\ CanPoll /\ ~streaming
  /\ \/ avail > 0 /\ avail' = avail - 1 /\ GiveFrame
     \/ avail = 0 /\ client # "sending" /\ UNCHANGED avail /\ GiveEnd
  /\ UNCHANGED <<verdict, input, bodyless, sized, left, client, connected, result, flags,
                 stalls, timers, ghosts>>

\* A failed body fails the request.
HyperReports ==
  /\ Sending /\ result = "none"
  /\ body \in {"timed_out", "broken"}
  /\ result' = IF body = "broken" THEN "body_error" ELSE "body_timeout"
  /\ UNCHANGED <<verdict, input, upload, connected, buffered, body, flags, stalls, timers, ghosts>>

-----------------------------------------------------------------------------
(* The timer, and the end of handle_core *)

\* Mutant: a timeout counts only without a body.
CountsBodyless == bodyless

CountsTimeout == bodyless \/ streaming

Timeout == Answer(504, IF CountsTimeout THEN "failure" ELSE ticket)

TimerBodySent ==
  /\ Suspended /\ timer = "window" /\ body = "eos"
  /\ timer' = "final"
  /\ timerLeft' = UpstreamTimeout
  /\ UNCHANGED <<verdict, input, upload, hyper, body, flags, stalls, idleLeft, totalLeft, ghosts>>

TimerBodyFailed ==
  /\ Suspended /\ timer = "window" /\ body \in {"timed_out", "broken"}
  /\ timer' = "never"
  /\ UNCHANGED <<verdict, input, upload, hyper, body, flags, stalls, idleLeft, totalLeft, timerLeft, ghosts>>

\* Mutant: only a body that was sent starts the clock.
TimerSwapForgives ==
  /\ Suspended /\ timer = "window" /\ timerLeft = 0
  /\ polled' = FALSE
  /\ timerLeft' = UpstreamTimeout
  /\ UNCHANGED <<verdict, input, upload, hyper, body, poll, waiting, stalls, idleLeft, totalLeft,
                 timer, ghosts>>

\* A window has passed.  Was the body polled in it? ...
TimerSwap ==
  /\ Suspended /\ timer = "window" /\ timerLeft = 0
  /\ polled' = FALSE
  /\ IF polled
     THEN timerLeft' = UpstreamTimeout /\ UNCHANGED handler
     ELSE handler' = "checking" /\ UNCHANGED timerLeft
  /\ UNCHANGED <<status, ticket, since, input, upload, hyper, body, poll, waiting, stalls,
                 idleLeft, totalLeft, timer, ghosts>>

\* Mutant: a client that is waited for counts as an upstream that does not read.
TimerLoadImpatient ==
  /\ handler = "checking"
  /\ Timeout
  /\ UNCHANGED <<input, upload, hyper, body, flags, stalls, timers, ghosts>>

\* ... And if not, is the client waited for?
TimerLoad ==
  /\ handler = "checking"
  /\ IF waiting
     THEN /\ handler' = "sending"
          /\ timerLeft' = UpstreamTimeout
          /\ UNCHANGED <<status, ticket, since>>
     ELSE Timeout /\ UNCHANGED timerLeft
  /\ UNCHANGED <<input, upload, hyper, body, flags, stalls, idleLeft, totalLeft, timer, ghosts>>

TimerFinal ==
  /\ Suspended /\ timer = "final" /\ timerLeft = 0
  /\ Timeout
  /\ UNCHANGED <<input, upload, hyper, body, flags, stalls, timers, ghosts>>

\* An answer that counts against the upstream, unless its client stalled.
Suspect == result \in {"gateway", "error"}

Respond ==
  /\ Suspended
  /\ \/ result = "ok" /\ Answer(200, "success")
     \/ Suspect /\ ~streaming /\ Answer(502, "failure")
     \/ result = "body_timeout" /\ Answer(408, "released")
     \/ result = "body_error" /\ Answer(400, "released")
  /\ UNCHANGED <<input, upload, hyper, body, flags, stalls, timers, ghosts>>

\* client_stalled loads stall_since ...
LoadSince ==
  /\ Suspended /\ Suspect /\ streaming
  /\ handler' = "judging"
  /\ since' = stall
  /\ UNCHANGED <<status, ticket, input, upload, hyper, body, flags, stalls, timers, ghosts>>

\* ... and then longest_stall.
LoadLongest ==
  /\ handler = "judging"
  /\ Answer(502, IF longest >= Theta \/ (since # Off /\ since >= Theta)
                 THEN "released" ELSE "failure")
  /\ UNCHANGED <<input, upload, hyper, body, flags, stalls, timers, ghosts>>

\* The client's connection goes away and the handler's future with it.
DropHandler ==
  /\ Suspended
  /\ handler' = "dropped"
  /\ UNCHANGED <<status, ticket, since, input, upload, hyper, body, flags, stalls, timers, ghosts>>

-----------------------------------------------------------------------------

\* The upstream could take more of the body, and the client has sent no more.
ClientsTurn ==
  /\ connected /\ body = "open" /\ buffered < Buffer
  /\ avail = 0 /\ client = "sending"

\* Time passes once the tasks have handled what woke them.
Tick ==
  /\ Suspended
  /\ ~PollDue
  /\ stall' = Older(stall)
  /\ idleLeft' = Shorter(idleLeft)
  /\ totalLeft' = Shorter(totalLeft)
  /\ timerLeft' = Shorter(timerLeft)
  /\ turn' = IF ClientsTurn THEN 0 ELSE Min({turn + 1, UpstreamTimeout})
  /\ LET run == IF ClientsTurn THEN Older(truth.current) ELSE 0
     IN  truth' = [longest |-> Max({truth.longest, run}), current |-> run]
  /\ UNCHANGED <<verdict, input, upload, hyper, body, flags, longest, ending, timer>>

Poll ==
  \/ PollBegin \/ PollFrame \/ PollOver \/ StallMax \/ PollReturn
  \/ PollPending \/ PollWait \/ PollLegacy

Handle ==
  \/ TimerBodySent \/ TimerBodyFailed \/ TimerSwap \/ TimerLoad \/ TimerFinal
  \/ Respond \/ LoadSince \/ LoadLongest

RequestNext ==
  \/ Refuse \/ AcquireInVain \/ Acquire
  \/ ClientSends \/ ClientEnds \/ ClientBreaksOff
  \/ Connect \/ UpstreamReads \/ UpstreamAnswers \/ UpstreamFails
  \/ Poll \/ HyperReports
  \/ Handle \/ DropHandler
  \/ Tick

RequestSpec == RequestInit /\ [][RequestNext]_qvars

\* The runtime runs the two tasks when they are woken and time passes, however
\* often the body is polled without need; the client and the upstream owe us
\* nothing.  Whenever the handler runs it looks at the result too (select!), so
\* that the windows of the timer do not keep it from the result for ever.
FairRequestSpec ==
  /\ RequestSpec
  /\ WF_qvars(\/ Refuse \/ AcquireInVain \/ Acquire
              \/ TimerBodySent \/ TimerBodyFailed \/ TimerSwap \/ TimerLoad \/ TimerFinal
              \/ LoadLongest)
  /\ SF_qvars(Respond \/ LoadSince)
  /\ WF_qvars((PollDue /\ Poll) \/ HyperReports)
  /\ SF_qvars(Tick)

-----------------------------------------------------------------------------

\* "A client that is merely slow is left to the body's own idle/total
\* deadlines (408)": a timeout is held against the upstream only if it was
\* the upstream's move, without a break, for at least upstream_timeout (the
\* timer of handle_core with BodyState, and counts_timeout).
TimeoutIsTheUpstreams ==
  status = 504 /\ ticket = "failure" => turn >= UpstreamTimeout

\* The same, but for one race: what the client sends after a silent window may
\* be read between the timer's two atomics, the swap of polled and the load of
\* waiting_on_client.  No other timeout counts the time a client takes.
TimeoutIsTheUpstreamsUnlessRaced ==
  status = 504 /\ ticket = "failure" =>
    turn >= UpstreamTimeout \/ (timer = "window" /\ polled)

\* A 502..504 answer or a broken connection is held against the upstream only
\* if the client never left its upload idle for theta, or if the handler looked
\* between the two atomics that end such a stall
\* (BodyState::client_stalled in handle_core's outcomes).
StalledClientIsNoEvidence ==
  streaming /\ status = 502 /\ ticket = "failure" =>
    truth.longest < Theta \/ (ending # Off /\ ending >= Theta)

\* As long as the time for the whole upload is not over, a client is told that
\* it timed out only if it really kept a willing upstream waiting for the idle
\* timeout, not if it sent its frames slowly or the upstream read them slowly
\* (RequestBody::poll_frame: idle_sleep is armed only while the client is
\* waited for, and each frame disarms it).  The deadline for the whole upload
\* makes no such distinction: a slow upstream can use it up.
IdleTimeoutIsTheClients ==
  status = 408 /\ totalLeft > 0 => truth.longest >= IdleTimeout

\* An answered request has settled its ticket, one way or the other: a probe's
\* slot is not left to wait for a cooldown (handle_core's outcomes).  The one
\* exception is a timeout that the legacy handler does not count.
EveryTicketIsSettled ==
  handler = "done" /\ (streaming \/ bodyless \/ status # 504) => ticket # "held"

\* Whatever the client and the upstream do or fail to do, the handler ends
\* (the timer and the body's deadlines together leave no gap).
EveryRequestEnds ==
  Sending ~> ~Sending

=============================================================================
