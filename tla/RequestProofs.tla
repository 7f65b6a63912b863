---------------------------- MODULE RequestProofs ----------------------------
(***************************************************************************)
(* Machine-checked proofs about Request, for every value of the timeouts,  *)
(* bodies of any length and any buffer of hyper's.                         *)
(***************************************************************************)
EXTENDS Request, TLAPS

-----------------------------------------------------------------------------
(* The inductive invariant *)

RTypes ==
  /\ handler \in {"start", "sending", "checking", "judging", "done", "dropped"}
  /\ streaming \in BOOLEAN /\ bodyless \in BOOLEAN
  /\ avail \in Nat /\ buffered \in Nat
  /\ client \in {"sending", "ended", "gone"}
  /\ body \in {"open", "eos", "timed_out", "broken"}
  /\ poll \in {"idle", "begun", "frame", "over", "pending"}
  /\ polled \in BOOLEAN /\ waiting \in BOOLEAN
  /\ stall \in 0..Cap \cup {Off} /\ ending \in 0..Cap \cup {Off} /\ longest \in 0..Cap
  /\ since \in 0..Cap \cup {Off}
  /\ idleLeft \in Nat \cup {Off} /\ totalLeft \in Nat
  /\ timer \in {"window", "final", "never"} /\ timerLeft \in Nat
  /\ turn \in Nat
  /\ truth \in [longest : 0..Cap, current : 0..Cap]

\* As much of a window as has passed without the client being waited for has
\* been the upstream's, and so has all the time since the end of the body.
TurnInv ==
  /\ handler = "start" =>
       timerLeft = UpstreamTimeout /\ ~polled /\ body = "open" /\ poll = "idle"
  /\ Sending /\ timer = "window" => streaming
  /\ Sending /\ timer = "window" /\ ~polled /\ ~waiting => turn >= UpstreamTimeout - timerLeft
  /\ handler = "checking" => timer = "window" /\ timerLeft = 0
  /\ Sending /\ timer = "final" /\ CountsTimeout =>
       body = "eos" /\ turn >= UpstreamTimeout - timerLeft

\* What a poll that is under way has found, and keeps: a window of the timer
\* that began before the poll did knows that the body was polled.
PollInv ==
  /\ poll # "idle" => streaming /\ body = "open" /\ connected /\ buffered < Buffer
  /\ poll # "idle" /\ timer = "window" => polled \/ timerLeft = UpstreamTimeout
  /\ poll = "frame" => idleLeft = Off
  /\ poll = "pending" => waiting
  /\ poll = "pending" /\ idleLeft # Off => truth.longest >= IdleTimeout - idleLeft
  /\ ending # Off => poll \in {"frame", "over"}

\* The longest wait for the client is in one of the three stalls, also for a
\* handler that has loaded one of them.
StallInv ==
  /\ poll \in {"idle", "begun"} => (waiting <=> stall # Off)
  /\ poll \in {"frame", "over"} => stall = Off
  /\ avail > 0 => truth.current = 0
  /\ streaming /\ stall # Off => truth.current <= stall
  /\ streaming /\ stall = Off /\ (client = "sending" \/ poll = "pending") => truth.current = 0
  /\ streaming => \/ truth.longest <= longest
                  \/ stall # Off /\ truth.longest <= stall
                  \/ ending # Off /\ truth.longest <= ending
  /\ handler = "judging" => \/ truth.longest <= longest
                            \/ since # Off /\ truth.longest <= since
                            \/ ending # Off /\ truth.longest <= ending

\* The idle timeout has run only while the client was waited for, and a body
\* that timed out did so for good reason.
IdleInv ==
  /\ truth.current <= truth.longest
  /\ idleLeft # Off /\ body = "open" =>
       /\ streaming /\ connected /\ buffered < Buffer
       /\ avail = 0 /\ client = "sending" => truth.current >= IdleTimeout - idleLeft
  /\ body = "timed_out" \/ result = "body_timeout" =>
       truth.longest >= IdleTimeout \/ totalLeft = 0

Blame ==
  /\ TimeoutIsTheUpstreamsUnlessRaced
  /\ StalledClientIsNoEvidence
  /\ IdleTimeoutIsTheClients
  /\ EveryTicketIsSettled

\* While a request is under way there is no answer, and its ticket is open.
Unanswered ==
  /\ handler = "start" \/ Sending => status = 0
  /\ Sending => ticket = "held"

RInv == RTypes /\ TurnInv /\ PollInv /\ StallInv /\ IdleInv /\ Unanswered /\ Blame

-----------------------------------------------------------------------------
(* Ages and timers *)

\* The larger of two numbers.
LEMMA MaxOfTwo ==
  ASSUME NEW a \in Int, NEW b \in Int
  PROVE  Max({a, b}) = IF a >= b THEN a ELSE b
<1> DEFINE m == IF a >= b THEN a ELSE b
<1>1. m \in {a, b} /\ \A y \in {a, b} : m >= y
  OBVIOUS
<1>2. \A x \in {a, b} : (\A y \in {a, b} : x >= y) => x = m
  OBVIOUS
<1> QED
  BY <1>1, <1>2, Zenon DEF Max

\* The smaller of two numbers.
LEMMA MinOfTwo ==
  ASSUME NEW a \in Int, NEW b \in Int
  PROVE  Min({a, b}) = IF a <= b THEN a ELSE b
<1> DEFINE m == IF a <= b THEN a ELSE b
<1>1. m \in {a, b} /\ \A y \in {a, b} : m <= y
  OBVIOUS
<1>2. \A x \in {a, b} : (\A y \in {a, b} : x <= y) => x = m
  OBVIOUS
<1> QED
  BY <1>1, <1>2, Zenon DEF Min

\* The age at which ages saturate is none of the timeouts' business.
LEMMA CapIsLargest ==
  Cap \in Nat /\ Cap >= UpstreamTimeout /\ Cap >= IdleTimeout
<1> DEFINE S == {UpstreamTimeout, IdleTimeout, TotalTimeout, ThetaCap}
<1>1. S \subseteq Nat
  BY TimeoutsAssumption, Zenon
<1>2. \E x \in S : \A y \in S : x >= y
  <2> DEFINE p == IF UpstreamTimeout >= IdleTimeout THEN UpstreamTimeout ELSE IdleTimeout
             q == IF TotalTimeout >= ThetaCap THEN TotalTimeout ELSE ThetaCap
             m == IF p >= q THEN p ELSE q
  <2>1. m \in S /\ \A y \in S : m >= y
    BY <1>1
  <2> QED
    BY <2>1, Zenon
<1>3. Cap \in S /\ \A y \in S : Cap >= y
  BY <1>2, Zenon DEF Cap, Max
<1> QED
  BY <1>1, <1>3, Zenon

\* An age grows, up to Cap.
LEMMA OlderGrows ==
  ASSUME NEW a \in 0..Cap
  PROVE  /\ Older(a) \in 0..Cap /\ Older(a) >= a
         /\ Older(a) = a + 1 \/ Older(a) = Cap
         /\ \A b \in 0..Cap : b <= a => Older(b) <= Older(a)
<1>1. \A b \in 0..Cap : b # Off /\ Older(b) = IF b + 1 <= Cap THEN b + 1 ELSE Cap
  BY CapIsLargest, TimeoutsAssumption, MinOfTwo DEF Older
<1> QED
  BY <1>1, CapIsLargest

\* What is left of a timer shrinks, down to zero.
LEMMA ShorterShrinks ==
  ASSUME NEW t \in Nat
  PROVE  Shorter(t) \in Nat /\ Shorter(t) = IF t > 0 THEN t - 1 ELSE 0
<1>1. t # Off
  BY TimeoutsAssumption
<1>2. Max({t - 1, 0}) = IF t > 0 THEN t - 1 ELSE 0
  BY MaxOfTwo
<1> QED
  BY <1>1, <1>2 DEF Shorter

\* theta is a number.
LEMMA ThetaIsNat == Theta \in Nat
  BY MinOfTwo, TimeoutsAssumption DEF Theta

\* No early answer looks like a timeout.
LEMMA EarlyAnswers ==
  /\ Applies(Refusals) => Refusals[FirstOf(Refusals)][2] \in {200, 400, 404, 501, 503}
  /\ Applies(BadRewrites) => BadRewrites[FirstOf(BadRewrites)][2] \in {400, 502}
<1>1. ASSUME Applies(Refusals)
      PROVE  Refusals[FirstOf(Refusals)][2] \in {200, 400, 404, 501, 503}
  <2> DEFINE S == {k \in DOMAIN Refusals : Refusals[k][1] \in faults}
  <2>1. DOMAIN Refusals = 1..7
    BY DEF Refusals
  <2>2. \E x \in S : x \in S
    BY <1>1, Zenon DEF Applies
  <2>3. \A x \in S : x \in {1, 2, 3, 4, 5, 6, 7}
    BY <2>1
  <2> HIDE DEF S
  <2>4. \E x \in S : \A y \in S : x <= y
    BY <2>2, <2>3
  <2>5. Min(S) \in S
    BY <2>4, Zenon DEF Min
  <2>6. \A k \in {1, 2, 3, 4, 5, 6, 7} : Refusals[k][2] \in {200, 400, 404, 501, 503}
    BY DEF Refusals
  <2> QED
    BY <2>3, <2>5, <2>6 DEF S, FirstOf
<1>2. ASSUME Applies(BadRewrites)
      PROVE  BadRewrites[FirstOf(BadRewrites)][2] \in {400, 502}
  <2> DEFINE S == {k \in DOMAIN BadRewrites : BadRewrites[k][1] \in faults}
  <2>1. DOMAIN BadRewrites = 1..2
    BY DEF BadRewrites
  <2>2. \E x \in S : x \in S
    BY <1>2, Zenon DEF Applies
  <2>3. \A x \in S : x \in {1, 2}
    BY <2>1
  <2> HIDE DEF S
  <2>4. \E x \in S : \A y \in S : x <= y
    BY <2>2, <2>3
  <2>5. Min(S) \in S
    BY <2>4, Zenon DEF Min
  <2>6. \A k \in {1, 2} : BadRewrites[k][2] \in {400, 502}
    BY DEF BadRewrites
  <2> QED
    BY <2>3, <2>5, <2>6 DEF S, FirstOf
<1> QED
  BY <1>1, <1>2

-----------------------------------------------------------------------------
(* The invariant holds at first, and every step preserves it *)

\* Nothing has been read, sent or waited for.
LEMMA RInvInit == RequestInit => RInv
<1> SUFFICES ASSUME RequestInit PROVE RInv
  BY Zenon
<1> USE TimeoutsAssumption, CapIsLargest
<1>1. truth.longest = 0 /\ truth.current = 0 /\ truth \in [longest : 0..Cap, current : 0..Cap]
  BY DEF RequestInit
<1>2. RTypes
  <2>1. bodyless \in BOOLEAN
    BY Zenon DEF RequestInit
  <2>2. handler = "start" /\ streaming \in BOOLEAN /\ avail = 0 /\ buffered = 0
        /\ client \in {"sending", "ended", "gone"} /\ body = "open"
    BY DEF RequestInit
  <2>3. poll = "idle" /\ polled = FALSE /\ waiting = FALSE
        /\ stall = Off /\ ending = Off /\ longest = 0 /\ since = Off
        /\ idleLeft = Off /\ totalLeft \in Nat /\ timer = "window" /\ timerLeft \in Nat /\ turn = 0
    BY Zenon DEF RequestInit
  <2> QED
    BY <1>1, <2>1, <2>2, <2>3, Zenon DEF RTypes
<1>3. TurnInv /\ PollInv /\ StallInv /\ IdleInv
  BY <1>1 DEF RequestInit, TurnInv, PollInv, StallInv, IdleInv, Sending
<1>4. Unanswered /\ Blame
  BY DEF RequestInit, Unanswered, Sending, Blame, TimeoutIsTheUpstreamsUnlessRaced, StalledClientIsNoEvidence,
         IdleTimeoutIsTheClients, EveryTicketIsSettled
<1> QED
  BY <1>2, <1>3, <1>4, Zenon DEF RInv

\* The handler answers at once, or sends the request.
LEMMA RInvStart == RInv /\ (Refuse \/ AcquireInVain \/ Acquire) => RInv'
<1> SUFFICES ASSUME RInv, Refuse \/ AcquireInVain \/ Acquire PROVE RInv'
  BY Zenon
<1> USE DEF RInv, input, upload, hyper, flags, stalls, timers, ghosts
<1>1. RTypes'
  BY DEF RTypes, Refuse, AcquireInVain, Acquire, Answer
<1>2. TurnInv'
  BY TimeoutsAssumption, CapIsLargest
  DEF TurnInv, RTypes, Refuse, AcquireInVain, Acquire, Answer, Sending, CountsTimeout
<1>3. StallInv' /\ PollInv'
  <2>1. handler' \in {"done", "sending"} /\ poll = "idle"
        /\ UNCHANGED <<input, upload, hyper, flags, stalls, idleLeft, ghosts>>
    BY Zenon DEF Refuse, AcquireInVain, Acquire, Answer, TurnInv
  <2> QED
    BY <2>1 DEF StallInv, PollInv
<1>4. CASE Refuse \/ AcquireInVain
  <2>1. /\ handler' = "done" /\ ticket' \in {"none", "released"}
        /\ status' \in {200, 400, 404, 501, 502, 503}
    BY <1>4, EarlyAnswers DEF Refuse, AcquireInVain, Answer
  <2>2. Unanswered' /\ Blame'
    BY <2>1 DEF Unanswered, Sending, Blame, TimeoutIsTheUpstreamsUnlessRaced, StalledClientIsNoEvidence,
         IdleTimeoutIsTheClients, EveryTicketIsSettled
  <2>3. IdleInv'
    BY <1>4, Zenon DEF IdleInv, Refuse, AcquireInVain
  <2> QED
    BY <1>1, <1>2, <1>3, <2>2, <2>3, Zenon
<1>5. CASE Acquire
  <2>1. IdleInv'
    BY <1>5, Zenon DEF IdleInv, TurnInv, Acquire
  <2>2. Unanswered' /\ Blame'
    BY <1>5 DEF Unanswered, Sending, Blame, TimeoutIsTheUpstreamsUnlessRaced, StalledClientIsNoEvidence,
         IdleTimeoutIsTheClients, EveryTicketIsSettled, Acquire
  <2> QED
    BY <1>1, <1>2, <1>3, <2>1, <2>2, Zenon
<1> QED
  BY <1>4, <1>5, Zenon

\* Blame is laid in the step that answers: no other step of a request that is
\* being sent can disturb it.
LEMMA BlameKept ==
  ASSUME RInv, Sending, UNCHANGED <<status, ticket>>, handler' # "done"
  PROVE  Blame' /\ Unanswered'
<1>1. status' = 0 /\ ticket' = "held"
  BY Zenon DEF RInv, Unanswered
<1> QED
  BY <1>1 DEF Blame, Unanswered, TimeoutIsTheUpstreamsUnlessRaced,
         StalledClientIsNoEvidence, IdleTimeoutIsTheClients, EveryTicketIsSettled

\* The client, the upstream and hyper's connection.
LEMMA RInvOutside ==
  /\ RInv
  /\ \/ ClientSends \/ ClientEnds \/ ClientBreaksOff
     \/ Connect \/ UpstreamReads \/ UpstreamAnswers \/ UpstreamFails \/ HyperReports
  => RInv'
<1> SUFFICES ASSUME RInv,
                    \/ ClientSends \/ ClientEnds \/ ClientBreaksOff
                    \/ Connect \/ UpstreamReads \/ UpstreamAnswers \/ UpstreamFails
                    \/ HyperReports
             PROVE  RInv'
  BY Zenon
<1> USE DEF RInv, verdict, input, hyper, flags, stalls, timers, ghosts, upload
<1>1. Blame' /\ Unanswered'
  <2>1. Sending /\ UNCHANGED <<handler, status, ticket>>
    BY Zenon DEF ClientSends, ClientEnds, ClientBreaksOff, Connect, UpstreamReads,
       UpstreamAnswers, UpstreamFails, HyperReports
  <2> QED
    BY <2>1, BlameKept, Zenon DEF Sending
<1>2. CASE ClientSends
  <2>1. truth' \in [longest : 0..Cap, current : 0..Cap]
        /\ truth'.longest = truth.longest /\ truth'.current = 0
    BY <1>2, CapIsLargest DEF ClientSends, RTypes
  <2>2. RTypes'
    BY <1>2, <2>1 DEF ClientSends, RTypes
  <2>3. TurnInv' /\ PollInv'
    BY <1>2, <2>1, Zenon DEF ClientSends, TurnInv, PollInv, Sending, CountsTimeout
  <2>4. StallInv' /\ IdleInv'
    BY <1>2, <2>1, CapIsLargest DEF ClientSends, StallInv, IdleInv, RTypes
  <2> QED
    BY <1>1, <2>2, <2>3, <2>4, Zenon
<1>3. CASE ClientEnds \/ ClientBreaksOff
  <2>1. client' \in {"ended", "gone"}
        /\ UNCHANGED <<verdict, input, avail, bodyless, hyper, body, flags, stalls, timers, ghosts>>
    BY <1>3, Zenon DEF ClientEnds, ClientBreaksOff
  <2> QED
    BY <1>1, <2>1 DEF RTypes, TurnInv, PollInv, Sending, CountsTimeout, StallInv, IdleInv
<1>4. CASE Connect
  BY <1>1, <1>4 DEF Connect, RTypes, TurnInv, PollInv, Sending, CountsTimeout, StallInv, IdleInv
<1>5. CASE UpstreamReads
  <2>1. buffered' \in Nat /\ buffered' < buffered
    BY <1>5 DEF UpstreamReads, RTypes
  <2>2. IdleInv' /\ PollInv'
    BY <1>5, <2>1, TimeoutsAssumption DEF UpstreamReads, RTypes, IdleInv, PollInv
  <2> QED
    BY <1>1, <1>5, <2>1, <2>2
    DEF UpstreamReads, RTypes, TurnInv, Sending, CountsTimeout, StallInv
<1>6. CASE UpstreamAnswers \/ UpstreamFails \/ HyperReports
  <2>1. /\ result' = "body_timeout" => body = "timed_out"
        /\ UNCHANGED <<verdict, input, upload, connected, buffered, body, flags, stalls, timers, ghosts>>
    BY <1>6 DEF UpstreamAnswers, UpstreamFails, HyperReports
  <2> QED
    BY <1>1, <2>1 DEF RTypes, TurnInv, PollInv, Sending, CountsTimeout, StallInv, IdleInv
<1> QED
  BY <1>2, <1>3, <1>4, <1>5, <1>6, Zenon

\* The beginning of a poll; and the legacy handler's, which ends at once.
LEMMA RInvPollBegin == RInv /\ (PollBegin \/ PollLegacy) => RInv'
<1> SUFFICES ASSUME RInv, PollBegin \/ PollLegacy PROVE RInv'
  BY Zenon
<1> USE DEF RInv, verdict, input, hyper, flags, stalls, timers, ghosts, upload
<1>1. Sending /\ body = "open" /\ poll = "idle" /\ UNCHANGED <<handler, status, ticket>>
  BY Zenon DEF PollBegin, PollLegacy, CanPoll
<1>2. Blame' /\ Unanswered'
  BY <1>1, BlameKept, Zenon DEF Sending
<1>3. CASE PollBegin
  <2>1. /\ polled' = TRUE /\ streaming /\ connected /\ buffered < Buffer
        /\ \/ totalLeft = 0 /\ body' = "timed_out" /\ poll' = "idle"
           \/ body' = "open" /\ poll' = "begun"
    BY <1>1, <1>3, Zenon DEF PollBegin, CanPoll
  <2>2. UNCHANGED <<verdict, input, upload, hyper, waiting, stalls, timers, ghosts>>
    BY <1>3, Zenon DEF PollBegin
  <2>3. RTypes' /\ TurnInv'
    BY <1>1, <2>1, <2>2 DEF RTypes, TurnInv, Sending, CountsTimeout
  <2>4. PollInv' /\ StallInv' /\ IdleInv'
    BY <1>1, <2>1, <2>2 DEF PollInv, StallInv, IdleInv
  <2> QED
    BY <1>2, <2>3, <2>4, Zenon
<1>4. CASE PollLegacy
  <2>1. /\ ~streaming /\ avail' \in Nat /\ buffered' \in Nat /\ avail' <= avail
        /\ body' \in {"open", "eos", "broken"}
        /\ UNCHANGED <<verdict, input, bodyless, client, connected, result, flags, stalls, timers, ghosts>>
    BY <1>4 DEF PollLegacy, GiveFrame, GiveEnd, RTypes
  <2>2. RTypes' /\ TurnInv'
    BY <1>1, <2>1 DEF RTypes, TurnInv, Sending, CountsTimeout
  <2>3. PollInv' /\ StallInv' /\ IdleInv'
    BY <1>1, <2>1 DEF PollInv, StallInv, IdleInv, RTypes
  <2> QED
    BY <1>2, <2>2, <2>3, Zenon
<1> QED
  BY <1>3, <1>4, Zenon

\* A poll that yields something ends the stall: what was current is ending.
LEMMA RInvPollEnds == RInv /\ (PollFrame \/ PollOver) => RInv'
<1> SUFFICES ASSUME RInv, PollFrame \/ PollOver PROVE RInv'
  BY Zenon
<1> USE DEF RInv
<1>1. /\ Sending /\ poll = "begun" /\ StallEnded
      /\ UNCHANGED <<handler, status, ticket, since, streaming, bodyless, client, hyper, body,
                     polled, waiting, totalLeft, timer, timerLeft, ghosts>>
  BY Zenon DEF PollFrame, PollOver, verdict, input, upload, timers
<1>2. \/ avail > 0 /\ avail' = avail - 1 /\ idleLeft' = Off /\ poll' = "frame"
      \/ avail = 0 /\ avail' = 0 /\ idleLeft' = idleLeft /\ poll' = "over" /\ client # "sending"
  BY Zenon DEF PollFrame, PollOver, upload, timers
<1>3. /\ stall' = Off /\ ending' = stall /\ longest' = longest /\ ending = Off
      /\ streaming /\ body = "open" /\ connected /\ buffered < Buffer
  BY <1>1 DEF StallEnded, PollInv
<1>4. avail' \in Nat /\ (avail' > 0 => avail > 0)
  BY <1>2 DEF RTypes
<1>5. Blame' /\ Unanswered'
  BY <1>1, BlameKept, Zenon DEF Sending
<1>6. RTypes' /\ TurnInv'
  BY <1>1, <1>2, <1>3, <1>4 DEF hyper, ghosts, RTypes, TurnInv, Sending, CountsTimeout
<1>7. PollInv'
  BY <1>1, <1>2, <1>3 DEF hyper, ghosts, PollInv
<1>8. StallInv'
  BY <1>1, <1>2, <1>3, <1>4, Zenon DEF hyper, ghosts, StallInv
<1>9. IdleInv'
  BY <1>1, <1>2, <1>3, <1>4, Zenon DEF hyper, ghosts, IdleInv
<1> QED
  BY <1>5, <1>6, <1>7, <1>8, <1>9, Zenon

\* The ended stall is kept if it is the longest.
LEMMA RInvStallMax == RInv /\ StallMax => RInv'
<1> SUFFICES ASSUME RInv, StallMax PROVE RInv'
  BY Zenon
<1> USE DEF RInv, verdict, input, hyper, flags, timers, ghosts, upload
<1>1. Sending /\ ending # Off /\ ending' = Off /\ longest' = Max({longest, ending})
      /\ UNCHANGED <<verdict, input, upload, hyper, body, flags, stall, timers, ghosts>>
  BY Zenon DEF StallMax
<1>2. Blame' /\ Unanswered'
  BY <1>1, BlameKept, Zenon DEF Sending
<1>3. /\ longest' = (IF longest >= ending THEN longest ELSE ending) /\ ending \in 0..Cap
      /\ longest' \in 0..Cap /\ longest' >= longest /\ longest' >= ending
  BY <1>1, MaxOfTwo, CapIsLargest DEF RTypes
<1>4. RTypes' /\ TurnInv'
  BY <1>1, <1>3 DEF RTypes, TurnInv, Sending, CountsTimeout
<1>5. PollInv' /\ IdleInv'
  BY <1>1 DEF PollInv, IdleInv
<1>6. StallInv'
  BY <1>1, <1>3, CapIsLargest DEF RTypes, StallInv
<1> QED
  BY <1>2, <1>4, <1>5, <1>6, Zenon

\* A poll returns what it has found.
LEMMA RInvPollReturn == RInv /\ PollReturn => RInv'
<1> SUFFICES ASSUME RInv, PollReturn PROVE RInv'
  BY Zenon
<1> USE DEF RInv
<1>1. /\ Sending /\ ending = Off /\ poll' = "idle" /\ waiting' = FALSE
      /\ UNCHANGED <<handler, status, ticket, since, streaming, bodyless, avail, client, connected,
                     result, polled, stalls, timers, ghosts>>
  BY Zenon DEF PollReturn, verdict, input
<1>2. \/ /\ poll = "frame" /\ buffered' = buffered + 1 /\ body' \in {"open", "eos"}
      \/ /\ poll = "over" /\ buffered' = buffered /\ body' \in {"eos", "broken"}
  BY Zenon DEF PollReturn, GiveFrame, GiveEnd
<1>3. /\ stall = Off /\ streaming /\ body = "open"
      /\ poll = "frame" => idleLeft = Off
      /\ timer = "window" => polled \/ timerLeft = UpstreamTimeout
  BY <1>2 DEF PollInv, StallInv
<1>4. Blame' /\ Unanswered'
  BY <1>1, BlameKept, Zenon DEF Sending
<1>5. RTypes'
  <2>1. buffered' \in Nat /\ body' \in {"open", "eos", "timed_out", "broken"}
    BY <1>2 DEF RTypes
  <2>2. UNCHANGED <<handler, since, streaming, bodyless, avail, client, polled, stall, longest,
                    ending, idleLeft, totalLeft, timer, timerLeft, turn, truth>>
    BY <1>1, Zenon DEF stalls, timers, ghosts
  <2>3. waiting' \in BOOLEAN /\ poll' \in {"idle", "begun", "frame", "over", "pending"}
    BY <1>1, Zenon
  <2> QED
    BY <2>1, <2>2, <2>3 DEF RTypes
<1>6. TurnInv'
  <2>1. timerLeft = UpstreamTimeout => turn >= UpstreamTimeout - timerLeft
    BY TimeoutsAssumption DEF RTypes
  <2> QED
    BY <1>1, <1>2, <1>3, <2>1, Zenon DEF timers, ghosts, TurnInv, Sending, CountsTimeout
<1>7. PollInv' /\ StallInv'
  BY <1>1, <1>3, Zenon DEF stalls, timers, ghosts, PollInv, StallInv
<1>8. IdleInv'
  BY <1>1, <1>2, <1>3, Zenon DEF timers, ghosts, IdleInv
<1> QED
  BY <1>4, <1>5, <1>6, <1>7, <1>8, Zenon

\* A poll that is left waiting for the client starts the stall.
LEMMA RInvPollWaits == RInv /\ (PollPending \/ PollWait) => RInv'
<1> SUFFICES ASSUME RInv, PollPending \/ PollWait PROVE RInv'
  BY Zenon
<1> USE DEF RInv, verdict, input, hyper, flags, timers, ghosts, upload
<1>1. Sending /\ poll \in {"begun", "pending"} /\ UNCHANGED <<handler, status, ticket>>
  BY DEF PollPending, PollWait
<1>2. Blame' /\ Unanswered'
  BY <1>1, BlameKept, Zenon DEF Sending
<1>3. streaming /\ body = "open" /\ connected /\ buffered < Buffer /\ ending = Off
  BY <1>1 DEF PollInv
<1>4. CASE PollPending
  <2>1. avail = 0 /\ client = "sending" /\ waiting' = TRUE /\ poll' = "pending"
        /\ UNCHANGED <<verdict, input, upload, hyper, body, polled, stalls, timers, ghosts>>
    BY <1>4, Zenon DEF PollPending
  <2>2. RTypes' /\ TurnInv'
    BY <1>1, <2>1 DEF stalls, RTypes, TurnInv, Sending, CountsTimeout
  <2>3. idleLeft # Off => truth.longest >= IdleTimeout - idleLeft
    <3>1. idleLeft # Off => truth.current >= IdleTimeout - idleLeft
      BY <1>3, <2>1, Zenon DEF IdleInv
    <3>2. truth.current <= truth.longest /\ truth.current \in Int /\ truth.longest \in Int
          /\ idleLeft \in Int \cup {Off} /\ IdleTimeout \in Int
      BY TimeoutsAssumption, CapIsLargest DEF IdleInv, RTypes
    <3> QED
      BY ONLY <3>1, <3>2
  <2>4. PollInv' /\ IdleInv'
    BY <1>1, <1>3, <2>1, <2>3, Zenon DEF stalls, PollInv, IdleInv
  <2>5. StallInv'
    BY <1>1, <2>1, Zenon DEF stalls, StallInv
  <2> QED
    BY <1>2, <2>2, <2>4, <2>5, Zenon
<1>5. CASE PollWait
  <2>1. /\ poll = "pending" /\ poll' = "idle"
        /\ stall' = (IF stall = Off THEN 0 ELSE stall)
        /\ idleLeft' = (IF idleLeft = Off THEN IdleTimeout ELSE idleLeft)
        /\ body' = (IF idleLeft = 0 THEN "timed_out" ELSE "open")
        /\ UNCHANGED <<verdict, input, upload, hyper, polled, waiting, longest, ending,
                       totalLeft, timer, timerLeft, ghosts>>
    BY <1>5, Zenon DEF PollWait
  <2>2. /\ IdleTimeout \in Nat \ {0} /\ Off \notin Int /\ 0 \in 0..Cap
        /\ stall \in 0..Cap \cup {Off} /\ idleLeft \in Nat \cup {Off}
        /\ truth.current \in 0..Cap /\ truth.longest \in 0..Cap /\ longest \in 0..Cap
    BY TimeoutsAssumption, CapIsLargest DEF RTypes
  <2>3. stall' \in 0..Cap /\ stall' # Off /\ idleLeft' \in Nat /\ idleLeft' # Off
    BY <2>1, <2>2
  <2>4. RTypes'
    BY <1>1, <2>1, <2>3 DEF RTypes
  <2>5. TurnInv' /\ PollInv'
    BY <1>1, <1>3, <2>1, Zenon DEF TurnInv, PollInv, Sending, CountsTimeout
  <2>6. /\ waiting' /\ truth.current <= stall'
        /\ \/ truth.longest <= longest
           \/ truth.longest <= stall'
    <3>1. waiting
      BY <2>1, Zenon DEF PollInv
    <3>2. stall = Off => truth.current = 0
      BY <1>3, <2>1, Zenon DEF StallInv
    <3>3. stall # Off => truth.current <= stall
      BY <1>3, Zenon DEF StallInv
    <3>4. truth.longest <= longest \/ (stall # Off /\ truth.longest <= stall)
      BY <1>3, Zenon DEF StallInv
    <3> QED
      BY <2>1, <2>2, <3>1, <3>2, <3>3, <3>4
  <2>7. StallInv'
    BY <1>1, <1>3, <2>1, <2>3, <2>6, Zenon DEF StallInv
  <2>8. IdleInv'
    <3>1. truth.current <= truth.longest
      BY Zenon DEF IdleInv
    <3>2. avail = 0 /\ client = "sending" => truth.current >= IdleTimeout - idleLeft'
      <4>1. CASE idleLeft = Off
        BY <2>1, <2>2, <4>1
      <4>2. CASE idleLeft # Off
        BY <1>3, <2>1, <4>2, Zenon DEF IdleInv
      <4> QED
        BY <4>1, <4>2, Zenon
    <3>3. body' = "timed_out" => truth.longest >= IdleTimeout
      BY <2>1, <2>2 DEF PollInv
    <3>4. result = "body_timeout" => truth.longest >= IdleTimeout \/ totalLeft = 0
      BY Zenon DEF IdleInv
    <3> QED
      BY <1>3, <2>1, <3>1, <3>2, <3>3, <3>4, Zenon DEF IdleInv
  <2> QED
    BY <1>2, <2>4, <2>5, <2>7, <2>8, Zenon
<1> QED
  BY <1>4, <1>5, Zenon

\* The polls of the body.
LEMMA RInvPoll == RInv /\ Poll => RInv'
  BY RInvPollBegin, RInvPollEnds, RInvStallMax, RInvPollReturn, RInvPollWaits, Zenon DEF Poll

\* Stalls and deadlines are no business of the timer's.
LEMMA WaitsKept ==
  ASSUME StallInv, IdleInv, handler' # "judging" \/ UNCHANGED <<handler, since>>,
         UNCHANGED <<input, upload, hyper, body, poll, waiting, stalls, idleLeft, totalLeft, truth>>
  PROVE  StallInv' /\ IdleInv'
<1>1. UNCHANGED <<streaming, avail, client, connected, buffered, result, body, poll, waiting, stall,
                  longest, ending, idleLeft, totalLeft, truth>>
  BY Zenon DEF input, upload, hyper, stalls
<1> QED
  BY <1>1 DEF StallInv, IdleInv

\* The timer goes on to another window, to its second look at the body, or to
\* the time after the end of the body.
LEMMA RInvTimerOn ==
  ASSUME RInv,
         \/ TimerBodySent \/ TimerBodyFailed \/ TimerSwap
         \/ TimerLoad /\ waiting
  PROVE  RInv'
<1>1. RTypes /\ TurnInv /\ PollInv /\ StallInv /\ IdleInv /\ Unanswered
  BY Zenon DEF RInv
<1>2. UpstreamTimeout \in Nat \ {0}
  BY TimeoutsAssumption, Zenon
<1>3. /\ Sending /\ timer = "window" /\ handler' \in {"sending", "checking"}
      /\ UNCHANGED <<status, ticket, since, input, upload, hyper, body, poll, waiting, stalls,
                     idleLeft, totalLeft, ghosts>>
  BY <1>1 DEF TimerBodySent, TimerBodyFailed, TimerSwap, TimerLoad, Suspended, Sending, TurnInv,
     verdict, flags
<1>4. \/ /\ handler' = "sending" /\ timer' = "final" /\ timerLeft' = UpstreamTimeout
         /\ body = "eos" /\ polled' = polled
      \/ /\ handler' = "sending" /\ timer' = "never" /\ timerLeft' = timerLeft /\ polled' = polled
      \/ /\ handler' = "sending" /\ timer' = "window" /\ timerLeft' = UpstreamTimeout
         /\ polled' \in BOOLEAN
      \/ /\ handler' = "checking" /\ timer' = "window" /\ timerLeft' = timerLeft /\ timerLeft = 0
         /\ ~polled /\ polled' = FALSE
  BY <1>1, ZenonT(40)
     DEF TimerBodySent, TimerBodyFailed, TimerSwap, TimerLoad, Suspended, RTypes, TurnInv,
         verdict, flags
<1>5. Blame' /\ Unanswered'
  BY <1>3, BlameKept, Zenon
<1>6. RTypes'
  <2>1. timerLeft' \in Nat /\ polled' \in BOOLEAN /\ timer' \in {"window", "final", "never"}
    BY <1>1, <1>2, <1>4, Zenon DEF RTypes
  <2> QED
    BY <1>1, <1>3, <2>1 DEF RTypes, input, upload, hyper, stalls, ghosts
<1>7. TurnInv'
  <2>1. streaming /\ turn \in Nat /\ UNCHANGED <<streaming, bodyless, turn>>
    BY <1>1, <1>3, Zenon DEF TurnInv, RTypes, input, upload, ghosts
  <2>2. timerLeft' = UpstreamTimeout => turn >= UpstreamTimeout - timerLeft'
    BY <1>2, <2>1
  <2> QED
    BY <1>1, <1>3, <1>4, <2>1, <2>2 DEF TurnInv, Sending, CountsTimeout
<1>8. PollInv'
  <2>1. poll # "idle" /\ timer' = "window" => polled' \/ timerLeft' = UpstreamTimeout
    BY <1>1, <1>2, <1>3, <1>4 DEF PollInv
  <2> QED
    BY <1>1, <1>3, <2>1 DEF PollInv, input, hyper, stalls, ghosts
<1>9. StallInv' /\ IdleInv'
  BY <1>1, <1>3, <1>4, WaitsKept DEF ghosts
<1> QED
  BY <1>5, <1>6, <1>7, <1>8, <1>9, Zenon DEF RInv

\* The timer gives up.
LEMMA RInvTimeout ==
  ASSUME RInv, (TimerLoad /\ ~waiting) \/ TimerFinal
  PROVE  RInv'
<1>1. RTypes /\ TurnInv /\ PollInv /\ StallInv /\ IdleInv /\ Unanswered
  BY Zenon DEF RInv
<1>2. UpstreamTimeout \in Nat
  BY TimeoutsAssumption, Zenon
<1>3. /\ Sending /\ timerLeft = 0 /\ Timeout
      /\ \/ timer = "window" /\ ~waiting
         \/ timer = "final"
  BY <1>1 DEF TimerLoad, TimerFinal, TurnInv, Sending, Suspended
<1>4. UNCHANGED <<input, upload, hyper, body, flags, stalls, timers, ghosts>>
  BY Zenon DEF TimerLoad, TimerFinal, timers
<1>5. handler' = "done" /\ status' = 504 /\ since' = Off
      /\ ticket' = IF CountsTimeout THEN "failure" ELSE ticket
  BY <1>3, Zenon DEF Timeout, Answer
<1>6. CountsTimeout => turn >= UpstreamTimeout \/ (timer = "window" /\ polled)
  BY <1>1, <1>2, <1>3 DEF TurnInv, RTypes
<1>7. UNCHANGED <<turn, streaming, bodyless, timer, polled>> /\ ticket = "held"
  BY <1>1, <1>3, <1>4, Zenon DEF input, upload, ghosts, flags, timers, Unanswered
<1>8. Blame' /\ Unanswered'
  <2>1. TimeoutIsTheUpstreamsUnlessRaced' /\ EveryTicketIsSettled'
    <3>1. CASE CountsTimeout
      BY ONLY <3>1, <1>5, <1>6, <1>7, Zenon
      DEF TimeoutIsTheUpstreamsUnlessRaced, EveryTicketIsSettled
    <3>2. CASE ~CountsTimeout
      BY ONLY <3>2, <1>5, <1>7, Zenon
      DEF TimeoutIsTheUpstreamsUnlessRaced, EveryTicketIsSettled, CountsTimeout
    <3> QED
      BY <3>1, <3>2, Zenon
  <2>2. StalledClientIsNoEvidence' /\ IdleTimeoutIsTheClients' /\ Unanswered'
    BY <1>5 DEF StalledClientIsNoEvidence, IdleTimeoutIsTheClients, Unanswered, Sending
  <2> QED
    BY <2>1, <2>2, Zenon DEF Blame
<1>9. RTypes'
  BY <1>1, <1>4, <1>5 DEF RTypes, input, upload, hyper, flags, stalls, timers, ghosts
<1>10. TurnInv'
  BY <1>5, Zenon DEF TurnInv, Sending
<1>11. PollInv'
  BY <1>1, <1>4, Zenon DEF PollInv, input, hyper, flags, stalls, timers, ghosts
<1>12. StallInv' /\ IdleInv'
  BY <1>1, <1>4, <1>5, WaitsKept, Zenon DEF flags, timers, ghosts
<1> QED
  BY <1>8, <1>9, <1>10, <1>11, <1>12, Zenon DEF RInv

\* The timer.
LEMMA RInvTimer ==
  RInv /\ (TimerBodySent \/ TimerBodyFailed \/ TimerSwap \/ TimerLoad \/ TimerFinal) => RInv'
  BY RInvTimerOn, RInvTimeout, Zenon

\* The outcomes of handle_core, and the loss of the handler.
LEMMA RInvEnd == RInv /\ (Respond \/ LoadSince \/ LoadLongest \/ DropHandler) => RInv'
<1> SUFFICES ASSUME RInv, Respond \/ LoadSince \/ LoadLongest \/ DropHandler PROVE RInv'
  BY Zenon
<1>1. RTypes /\ TurnInv /\ PollInv /\ StallInv /\ IdleInv /\ Unanswered
  BY Zenon DEF RInv
<1>2. /\ Sending /\ handler' \in {"done", "dropped", "judging"}
      /\ handler' = "judging" => handler = "sending"
      /\ since' \in {since, stall, Off}
      /\ UNCHANGED <<input, upload, hyper, body, flags, stalls, timers, ghosts>>
  BY DEF Respond, LoadSince, LoadLongest, DropHandler, Suspended, Sending, Answer
<1>3. RTypes'
  BY <1>1, <1>2 DEF RTypes, input, upload, hyper, flags, stalls, timers, ghosts
<1>4. TurnInv'
  BY <1>1, <1>2 DEF TurnInv, Sending, CountsTimeout, input, upload, flags, timers, ghosts
<1>5. PollInv'
  BY <1>1, <1>2, Zenon DEF PollInv, input, hyper, flags, stalls, timers, ghosts
<1>6. CASE DropHandler \/ LoadSince
  <2>1. /\ UNCHANGED <<status, ticket>> /\ handler' \in {"dropped", "judging"}
        /\ handler' = "judging" => since' = stall /\ streaming
    BY <1>6 DEF DropHandler, LoadSince
  <2>2. Blame' /\ Unanswered'
    <3>1. handler' # "done"
      BY <2>1
    <3> QED
      BY <1>2, <2>1, <3>1, BlameKept, Zenon
  <2>3. CASE handler' # "judging"
    <3>1. StallInv' /\ IdleInv'
      BY <1>1, <1>2, <2>3, WaitsKept, Zenon DEF flags, timers, ghosts
    <3> QED
      BY <1>3, <1>4, <1>5, <2>2, <3>1, Zenon DEF RInv
  <2>4. CASE handler' = "judging"
    <3>1. UNCHANGED <<streaming, avail, client, connected, buffered, result, body, poll, waiting,
                      stall, longest, ending, idleLeft, totalLeft, truth>>
      BY <1>2, Zenon DEF input, upload, hyper, flags, stalls, timers, ghosts
    <3>2. StallInv' /\ IdleInv'
      BY <1>1, <2>1, <2>4, <3>1, Zenon DEF StallInv, IdleInv
    <3> QED
      BY <1>3, <1>4, <1>5, <2>2, <3>2, Zenon DEF RInv
  <2> QED
    BY <2>3, <2>4, Zenon
<1>7. CASE Respond \/ LoadLongest
  <2>1. /\ handler' = "done"
        /\ status' \in {200, 502, 408, 400}
        /\ ticket' \in {"success", "released", "failure"}
        /\ status' = 408 => result = "body_timeout"
        /\ streaming /\ status' = 502 /\ ticket' = "failure" =>
             /\ handler = "judging"
             /\ ~(longest >= Theta \/ (since # Off /\ since >= Theta))
    BY <1>7 DEF Respond, LoadLongest, Suspect, Answer
  <2>2. UNCHANGED <<streaming, bodyless, totalLeft, truth, ending>>
    BY <1>2, Zenon DEF input, upload, timers, stalls, ghosts
  <2>3. TimeoutIsTheUpstreamsUnlessRaced' /\ EveryTicketIsSettled' /\ Unanswered'
    BY <2>1 DEF TimeoutIsTheUpstreamsUnlessRaced, EveryTicketIsSettled, Unanswered, Sending
  <2>4. IdleTimeoutIsTheClients'
    BY <1>1, <2>1, <2>2 DEF IdleTimeoutIsTheClients, IdleInv, RTypes
  <2>5. handler = "judging" /\ ~(longest >= Theta \/ (since # Off /\ since >= Theta)) =>
          truth.longest < Theta \/ (ending # Off /\ ending >= Theta)
    BY <1>1, ThetaIsNat, CapIsLargest DEF StallInv, RTypes
  <2>6. StalledClientIsNoEvidence'
    BY <2>1, <2>2, <2>5 DEF StalledClientIsNoEvidence
  <2>7. StallInv' /\ IdleInv'
    BY <1>1, <1>2, <2>1, WaitsKept DEF flags, timers, ghosts
  <2> QED
    BY <1>3, <1>4, <1>5, <2>3, <2>4, <2>6, <2>7, Zenon DEF RInv, Blame
<1> QED
  BY <1>6, <1>7, Zenon

\* Time passes.
LEMMA RInvTick == RInv /\ Tick => RInv'
<1> SUFFICES ASSUME RInv, Tick PROVE RInv'
  BY Zenon
<1> DEFINE run == IF ClientsTurn THEN Older(truth.current) ELSE 0
<1> USE DEF RInv, verdict, input, hyper, flags, upload
<1>1. /\ handler = "sending" /\ Sending /\ poll = "idle"
      /\ UNCHANGED <<verdict, input, upload, hyper, body, flags, longest, ending, timer>>
  BY Zenon DEF Tick, PollDue, Suspended, Sending
<1>2. Blame' /\ Unanswered' /\ ending = Off
  BY <1>1, BlameKept DEF PollInv
<1>3. /\ truth.current \in 0..Cap /\ truth.longest \in 0..Cap
      /\ stall \in 0..Cap \cup {Off} /\ longest \in 0..Cap /\ turn \in Nat
      /\ timerLeft \in Nat /\ totalLeft \in Nat /\ idleLeft \in Nat \cup {Off}
      /\ Off \notin Int
      /\ Cap \in Nat /\ Cap >= UpstreamTimeout /\ Cap >= IdleTimeout
      /\ UpstreamTimeout \in Nat /\ IdleTimeout \in Nat
  BY CapIsLargest, TimeoutsAssumption, Zenon DEF RTypes
<1>4. run \in 0..Cap /\ run <= Older(truth.current)
  BY <1>3, OlderGrows
<1>5. /\ truth'.current = run
      /\ truth'.longest = IF truth.longest >= run THEN truth.longest ELSE run
      /\ truth' \in [longest : 0..Cap, current : 0..Cap]
  <2>1. truth' = [longest |-> Max({truth.longest, run}), current |-> run]
    BY Zenon DEF Tick
  <2>2. Max({truth.longest, run}) = IF truth.longest >= run THEN truth.longest ELSE run
    BY <1>3, <1>4, MaxOfTwo
  <2> QED
    BY <1>3, <1>4, <2>1, <2>2, Zenon
<1>6. /\ timerLeft' \in Nat /\ timerLeft' = IF timerLeft > 0 THEN timerLeft - 1 ELSE 0
      /\ totalLeft' \in Nat /\ (totalLeft = 0 => totalLeft' = 0)
  BY <1>3, ShorterShrinks DEF Tick
<1>7. /\ idleLeft = Off => idleLeft' = Off
      /\ idleLeft # Off => idleLeft' \in Nat /\ idleLeft' = IF idleLeft > 0 THEN idleLeft - 1 ELSE 0
  BY <1>3, ShorterShrinks, Zenon DEF Tick, Shorter
<1>8. /\ stall = Off => stall' = Off
      /\ stall # Off => stall' \in 0..Cap /\ stall' >= stall
                        /\ (truth.current <= stall => Older(truth.current) <= stall')
  BY <1>3, OlderGrows, Zenon DEF Tick, Older
<1>9. turn' \in Nat
      /\ (~ClientsTurn => turn' = turn + 1 \/ turn' = UpstreamTimeout)
  <2>1. Min({turn + 1, UpstreamTimeout}) =
          IF turn + 1 <= UpstreamTimeout THEN turn + 1 ELSE UpstreamTimeout
    BY <1>3, MinOfTwo
  <2> QED
    BY <1>3, <2>1 DEF Tick
\* The connection task has polled: whoever is waited for is known to be.
<1>10. streaming /\ ClientsTurn => waiting /\ stall # Off
  BY <1>1, <1>2, ZenonT(40) DEF Tick, PollDue, CanPoll, ClientsTurn, StallInv
<1>11. RTypes'
  BY <1>1, <1>2, <1>3, <1>5, <1>6, <1>7, <1>8, <1>9 DEF RTypes
<1>12. TurnInv'
  <2>1. CASE timer = "window" /\ ~polled /\ ~waiting
    <3>1. ~ClientsTurn /\ turn >= UpstreamTimeout - timerLeft /\ streaming
      BY <1>1, <1>2, <1>10, <2>1, Zenon DEF TurnInv
    <3>2. turn' >= UpstreamTimeout - timerLeft'
      BY <1>3, <1>6, <1>9, <3>1
    <3> QED
      BY <1>1, <1>2, <2>1, <3>1, <3>2, Zenon DEF TurnInv, Sending
  <2>2. CASE timer = "final" /\ CountsTimeout
    <3>1. ~ClientsTurn /\ turn >= UpstreamTimeout - timerLeft /\ body = "eos"
      BY <1>1, <1>2, <2>2, Zenon DEF TurnInv, ClientsTurn
    <3>2. turn' >= UpstreamTimeout - timerLeft'
      BY <1>3, <1>6, <1>9, <3>1
    <3> QED
      BY <1>1, <1>2, <2>2, <3>1, <3>2, Zenon DEF TurnInv, Sending
  <2>3. CASE ~(timer = "window" /\ ~polled /\ ~waiting) /\ ~(timer = "final" /\ CountsTimeout)
    BY <1>1, <1>2, <2>3, Zenon DEF TurnInv, Sending, CountsTimeout
  <2> QED
    BY <2>1, <2>2, <2>3, Zenon
<1>13. StallInv' /\ PollInv'
  <2>1. avail > 0 => run = 0
    BY DEF ClientsTurn, RTypes
  <2>2. streaming /\ stall # Off => run <= stall'
    BY <1>3, <1>4, <1>8, OlderGrows DEF StallInv
  <2>3. streaming /\ stall = Off => run = 0
    BY <1>10, Zenon
  <2>4. streaming => \/ truth'.longest <= longest
                     \/ stall' # Off /\ truth'.longest <= stall'
    BY <1>1, <1>2, <1>3, <1>4, <1>5, <1>8, <2>2, <2>3 DEF StallInv
  <2>5. PollInv'
    BY <1>1, <1>2 DEF PollInv
  <2>6. StallInv'
    BY <1>1, <1>2, <1>3, <1>5, <1>8, <2>1, <2>2, <2>3, <2>4 DEF StallInv
  <2> QED
    BY <2>5, <2>6, Zenon
<1>14. IdleInv'
  <2>1. truth'.current <= truth'.longest /\ truth'.longest >= truth.longest
    BY <1>3, <1>4, <1>5
  <2>2. CASE idleLeft # Off /\ body = "open"
    <3>1. streaming /\ connected /\ buffered < Buffer
      BY <2>2, Zenon DEF IdleInv
    <3>2. ASSUME avail = 0, client = "sending"
          PROVE  truth'.current >= IdleTimeout - idleLeft'
      <4>1. run = Older(truth.current) /\ truth.current >= IdleTimeout - idleLeft
        BY <2>2, <3>1, <3>2, ZenonT(40) DEF ClientsTurn, IdleInv
      <4> QED
        BY <1>3, <1>5, <1>7, <2>2, <4>1, OlderGrows
    <3> QED
      BY <1>1, <1>2, <1>3, <1>5, <1>6, <2>1, <2>2, <3>1, <3>2 DEF IdleInv
  <2>3. CASE ~(idleLeft # Off /\ body = "open")
    BY <1>1, <1>2, <1>3, <1>5, <1>6, <1>7, <2>1, <2>3 DEF IdleInv
  <2> QED
    BY <2>2, <2>3, Zenon
<1> QED
  BY <1>2, <1>11, <1>12, <1>13, <1>14, Zenon

-----------------------------------------------------------------------------

\* The invariant holds of every request, whatever the client and the upstream do.
THEOREM RequestInvariance == RequestSpec => []RInv
<1>1. RInv /\ UNCHANGED qvars => RInv'
  BY DEF RInv, qvars, verdict, input, upload, hyper, flags, stalls, timers, ghosts, RTypes,
     TurnInv, PollInv, Sending, CountsTimeout, StallInv, IdleInv, Unanswered, Blame,
     TimeoutIsTheUpstreamsUnlessRaced, StalledClientIsNoEvidence, IdleTimeoutIsTheClients,
     EveryTicketIsSettled
<1>2. RInv /\ [RequestNext]_qvars => RInv'
  <2> SUFFICES ASSUME RInv, RequestNext PROVE RInv'
    BY <1>1, Zenon
  <2> QED
    BY RInvStart, RInvOutside, RInvPoll, RInvTimer, RInvEnd, RInvTick, Zenon
    DEF RequestNext, Handle
<1> QED
  BY RInvInit, <1>2, PTL DEF RequestSpec

\* Only the upstream's own time is held against it, for all timeouts, unless
\* the body is polled between the timer's two atomics (the timer of handle_core
\* with BodyState, and counts_timeout).
THEOREM TimeoutsAreTheUpstreamsUnlessRaced == RequestSpec => []TimeoutIsTheUpstreamsUnlessRaced
<1>1. RInv => TimeoutIsTheUpstreamsUnlessRaced
  BY Zenon DEF RInv, Blame
<1> QED
  BY <1>1, RequestInvariance, PTL

\* A failure during the upload is no evidence against the upstream if the client
\* had stalled, for all timeouts (BodyState::client_stalled).
THEOREM StallsExcuseTheUpstream == RequestSpec => []StalledClientIsNoEvidence
<1>1. RInv => StalledClientIsNoEvidence
  BY Zenon DEF RInv, Blame
<1> QED
  BY <1>1, RequestInvariance, PTL

\* A 408 within the time for the whole upload is the client's own doing, for
\* all timeouts and bodies (RequestBody::poll_frame and its idle_sleep).
THEOREM IdleTimeoutsAreTheClients == RequestSpec => []IdleTimeoutIsTheClients
<1>1. RInv => IdleTimeoutIsTheClients
  BY Zenon DEF RInv, Blame
<1> QED
  BY <1>1, RequestInvariance, PTL

\* Every answer settles the ticket (handle_core's outcomes).
THEOREM TicketsAreSettled == RequestSpec => []EveryTicketIsSettled
<1>1. RInv => EveryTicketIsSettled
  BY Zenon DEF RInv, Blame
<1> QED
  BY <1>1, RequestInvariance, PTL

=============================================================================
