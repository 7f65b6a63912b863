--------------------------- MODULE MCBreakerTimely ---------------------------
EXTENDS BreakerTimely, TLC

\* The callers are interchangeable.
Symmetry == Permutations(Callers)

TwoMillis   == {[cooldown |-> 2, threshold |-> 1]}
ThreeMillis == {[cooldown |-> 3, threshold |-> 1]}

=============================================================================
