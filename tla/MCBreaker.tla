------------------------------ MODULE MCBreaker ------------------------------
(* Instances of Breaker for TLC. *)
EXTENDS Breaker

Eager == {[cooldown |-> 1, threshold |-> 1]}

=============================================================================
