----------------------------- MODULE UpstreamPool -----------------------------
(***************************************************************************)
(* UpstreamPool of include/request.h: the targets of one named pool, the    *)
(* health and connection count of each, and the five balancing modes of     *)
(* upstream_pool_resolve.  The pool is one record; its functions are        *)
(* operators on that record.                                                *)
(*                                                                         *)
(* unhealthy_until is kept as the seconds that remain until it (0 when it   *)
(* is zero or has passed, which is what TARGET_HEALTHY tests).  The targets *)
(* of a pool have distinct URLs, so the search by URL in inc_conn, dec_conn *)
(* and mark_down finds the target itself.                                   *)
(***************************************************************************)
EXTENDS Integers, FiniteSets

CONSTANTS
  NumTargets,      \* num_targets
  CounterMod,      \* rr_counter is an unsigned int: it wraps at this value
  RetryTimeout     \* retry_timeout, seconds a target stays down

ASSUME PoolAssumption ==
  /\ NumTargets \in Nat \ {0}
  /\ CounterMod \in Nat \ {0} /\ NumTargets <= CounterMod
  /\ RetryTimeout \in Nat \ {0}

Targets == 0..(NumTargets - 1)
NoTarget == -1

Modes == {"round-robin", "random", "ip-hash", "conn-hash", "least-conn"}

Pools ==
  [down : [Targets -> 0..RetryTimeout],   \* seconds until the target is retried
   active : [Targets -> Nat],             \* active_connections
   rr : 0..(CounterMod - 1)]              \* rr_counter

upstream_pool_register ==
  [down |-> [t \in Targets |-> 0], active |-> [t \in Targets |-> 0], rr |-> 0]

Healthy(P, t) == P.down[t] = 0

(* The order in which a mode tries the targets.  Round-robin adds the try to  *)
(* the counter in unsigned arithmetic, before it takes the remainder.         *)
ScanFrom(start) == [k \in Targets |-> (start + k) % NumTargets]
ScanCounterFixed(c) == [k \in Targets |-> k]
ScanCounter(c) == [k \in Targets |-> ((c + k) % CounterMod) % NumTargets]

FirstHealthyShort(P, scan) ==
  LET H == {k \in 0..(NumTargets - 2) : Healthy(P, scan[k])}
  IN  IF H = {} THEN NoTarget ELSE scan[CHOOSE k \in H : \A j \in H : k <= j]

FirstHealthy(P, scan) ==
  LET H == {k \in Targets : Healthy(P, scan[k])}
  IN  IF H = {} THEN NoTarget ELSE scan[CHOOSE k \in H : \A j \in H : k <= j]

(* The first of the healthy targets with the fewest connections.              *)
LeastConn(P) ==
  LET H == {t \in Targets : Healthy(P, t)}
      M == {t \in H : \A u \in H : P.active[t] <= P.active[u]}
  IN  IF H = {} THEN NoTarget ELSE CHOOSE t \in M : \A u \in M : t <= u

(* upstream_pool_resolve: start is the target the random number or the hash   *)
(* of the client selects.                                                     *)
upstream_pool_resolve(P, mode, start) ==
  CASE mode = "round-robin" -> FirstHealthy(P, ScanCounter(P.rr))
    [] mode = "least-conn"  -> LeastConn(P)
    [] OTHER                -> FirstHealthy(P, ScanFrom(start))

AfterResolve(P, mode) ==
  IF mode = "round-robin" THEN [P EXCEPT !.rr = (@ + 1) % CounterMod] ELSE P

upstream_pool_inc_conn(P, t) == [P EXCEPT !.active[t] = @ + 1]

upstream_pool_dec_connTwice(P, t) == [P EXCEPT !.active[t] = @ - 2]

upstream_pool_dec_connKeepsLast(P, t) ==
  [P EXCEPT !.active[t] = IF @ > 1 THEN @ - 1 ELSE @]

upstream_pool_dec_conn(P, t) ==
  [P EXCEPT !.active[t] = IF @ > 0 THEN @ - 1 ELSE @]

upstream_pool_mark_down(P, t) == [P EXCEPT !.down[t] = RetryTimeout]

(* One second passes.                                                         *)
PoolSecond(P) == [P EXCEPT !.down = [t \in Targets |-> IF @[t] > 0 THEN @[t] - 1 ELSE 0]]
=============================================================================
