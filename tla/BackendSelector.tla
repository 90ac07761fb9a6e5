---------------------------- MODULE BackendSelector ----------------------------
(***************************************************************************)
(* The load balancer of the gateway (struct BackendSelector in             *)
(* gateway/src/proxy.rs).  A route is a record of a sequence of backends   *)
(* and a sequence of weights; health is a function on backends, TRUE for a *)
(* backend the health checker has not judged yet (unwrap_or(&true)).       *)
(*                                                                         *)
(* Select is the set of <<backend, counter>> pairs one call of select may  *)
(* produce: one pair for round-robin, one per candidate for the weighted   *)
(* draw, whose pseudo-random sample is left open.                          *)
(***************************************************************************)
EXTENDS Naturals, Sequences

CONSTANT CounterModulus   \* 2^64 in the code: the counter is a usize

ASSUME CounterAssumption == CounterModulus \in Nat \ {0}

(* The slot the k-th probe of a scan started at counter c looks at. *)
Slot(c, k, n) == (((c + k) % CounterModulus) % n) + 1

(* Mutant: the draw includes dead backends. *)
DrawsDead(route, health) ==
  {i \in DOMAIN route.backends :
     /\ Len(route.weights) = Len(route.backends)
     /\ route.weights[i] > 0}

(* Healthy candidates of the weighted draw. *)
WeightedCandidates(route, health) ==
  {i \in DOMAIN route.backends :
     /\ Len(route.weights) = Len(route.backends)
     /\ health[route.backends[i]]
     /\ route.weights[i] > 0}

(* Mutant: the counter is left on the slot it found. *)
RepeatsHit(route, health, c) ==
  LET n == Len(route.backends)
      HealthyAt(k) == health[route.backends[Slot(c, k, n)]]
      hits == {k \in 0 .. n - 1 : HealthyAt(k)}
      first == CHOOSE k \in hits : \A j \in hits : k <= j
  IN IF hits # {}
     THEN <<route.backends[Slot(c, first, n)], (c + first) % CounterModulus>>
     ELSE <<route.backends[Slot(c, n, n)], (c + n) % CounterModulus>>

(* Mutant: a plain addition instead of wrapping_add. *)
NeverWraps(route, health, c) ==
  LET n == Len(route.backends)
      HealthyAt(k) == health[route.backends[Slot(c, k, n)]]
      hits == {k \in 0 .. n - 1 : HealthyAt(k)}
      first == CHOOSE k \in hits : \A j \in hits : k <= j
  IN IF hits # {}
     THEN <<route.backends[Slot(c, first, n)], c + first + 1>>
     ELSE <<route.backends[Slot(c, n, n)], (c + n) % CounterModulus>>

(* The round-robin scan: the first healthy slot, or, after a full fruitless *)
(* scan, the slot the counter has come back to.                             *)
RoundRobin(route, health, c) ==
  LET n == Len(route.backends)
      HealthyAt(k) == health[route.backends[Slot(c, k, n)]]
      hits == {k \in 0 .. n - 1 : HealthyAt(k)}
      first == CHOOSE k \in hits : \A j \in hits : k <= j
  IN IF hits # {}
     THEN <<route.backends[Slot(c, first, n)], (c + first + 1) % CounterModulus>>
     ELSE <<route.backends[Slot(c, n, n)], (c + n) % CounterModulus>>

(* select: a single backend as it is; a weighted draw if there is a candidate *)
(* for it; round-robin otherwise.                                             *)
Select(route, health, c) ==
  IF Len(route.backends) = 1 THEN {<<route.backends[1], c>>}
  ELSE IF WeightedCandidates(route, health) # {}
  THEN {<<route.backends[i], c>> : i \in WeightedCandidates(route, health)}
  ELSE {RoundRobin(route, health, c)}
===============================================================================
