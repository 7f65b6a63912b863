------------------------------- MODULE MCServe -------------------------------
(***************************************************************************)
(* Instances of Serve, Embedded and Circuit for TLC: the proxy as a        *)
(* process of its own, inside another program, and the circuit of one of   *)
(* its upstreams.  None depends on the others, so that a behaviour is      *)
(* about one of the three; the others stand still.                         *)
(***************************************************************************)
EXTENDS Serve, Embedded, Circuit

MCBounds == {[delay |-> 0, drain |-> 3], [delay |-> 2, drain |-> 1], [delay |-> 1, drain |-> 2]}

TwoTuning == {[cooldown |-> 1, threshold |-> 2], [cooldown |-> 2, threshold |-> 1]}

VARIABLE about   \* "hosts" or "circuit"

NoProcess ==
  /\ main = "exited" /\ code = "0" /\ loop = "accept"
  /\ term = FALSE /\ second = "off" /\ draining = TRUE /\ expired = FALSE
  /\ hup = FALSE /\ hangup = "off" /\ unit = "stopping"
  /\ conns = [c \in Conns |-> "none"] /\ watched = {}

NoEmbedding ==
  /\ app = "failed" /\ bound = {} /\ task = [t \in Tasks |-> "none"] /\ stop = FALSE
  /\ settings = CHOOSE b \in Bounds : TRUE
  /\ serving = "accept" /\ left = 0 /\ open = {} /\ deadline = 0
  /\ missed = {} /\ reloaded = FALSE /\ backoff = 0 /\ fails = 0

\* A circuit that nobody uses.
NoCircuit == CircuitInit /\ cooldown = 1

HostsInit ==
  \/ about = "hosts" /\ ServeInit /\ NoEmbedding /\ NoCircuit
  \/ about = "hosts" /\ NoProcess /\ EmbeddedInit /\ NoCircuit
  \/ about = "circuit" /\ NoProcess /\ NoEmbedding /\ CircuitInit

HostsNext ==
  \/ about = "hosts" /\ ServeNext /\ UNCHANGED <<about, evars, cvars>>
  \/ about = "hosts" /\ EmbeddedNext /\ UNCHANGED <<about, svars, cvars>>
  \/ about = "circuit" /\ CircuitNext /\ UNCHANGED <<about, svars, evars>>

HostsSpec ==
  /\ HostsInit /\ [][HostsNext]_<<about, svars, evars, cvars>>
  /\ ServeFairness /\ EmbeddedFairness
  /\ about = "circuit" => CircuitFairness
=============================================================================
