-------------------------- MODULE MCBreakerSequential --------------------------
EXTENDS BreakerSequential

TwoTuning == {[cooldown |-> 1, threshold |-> 2], [cooldown |-> 2, threshold |-> 1]}

=============================================================================
