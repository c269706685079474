------------------------------ MODULE Balancer ------------------------------
(***************************************************************************)
(* The choice of an upstream target over time: every order of requests,     *)
(* ends of exchanges, failed connects and seconds that a pool can see, for  *)
(* each balancing mode.  The exchanges themselves are in ProxyExchange.     *)
(***************************************************************************)
EXTENDS UpstreamPool

CONSTANTS
  MaxConns         \* bound: connections counted on one target

ASSUME BalancerAssumption == MaxConns \in Nat

VARIABLES
  pool,     \* the UpstreamPool
  mode,     \* balance_mode, from the configuration
  waits,    \* requests a healthy target has seen pass since it was last chosen
            \* or became healthy (observation only)
  answer    \* the last answer, and what the pool was then (observation only)

vars == <<pool, mode, waits, answer>>

WaitCap == 2 * NumTargets
Up(P) == {t \in Targets : Healthy(P, t)}

(* proxy_handler asks for a target and counts the connection on it.           *)
Resolved(P, m, t) ==
  IF t = NoTarget THEN AfterResolve(P, m) ELSE upstream_pool_inc_conn(AfterResolve(P, m), t)

Resolve(start) ==
  LET t == upstream_pool_resolve(pool, mode, start)
  IN  /\ \A u \in Targets : pool.active[u] < MaxConns
      /\ pool' = Resolved(pool, mode, t)
      /\ waits' = [u \in Targets |->
           IF u = t \/ ~Healthy(pool, u) THEN 0
           ELSE IF waits[u] < WaitCap THEN waits[u] + 1 ELSE WaitCap]
      /\ answer' = [target |-> t, up |-> Up(pool), rr |-> pool.rr]
      /\ UNCHANGED mode

(* An exchange ends.                                                          *)
Finish(t) ==
  /\ pool.active[t] > 0
  /\ pool' = upstream_pool_dec_conn(pool, t)
  /\ UNCHANGED <<mode, waits, answer>>

(* An exchange ends because its connect failed or timed out.                   *)
Fail(t) ==
  /\ pool.active[t] > 0
  /\ pool' = upstream_pool_dec_conn(upstream_pool_mark_down(pool, t), t)
  /\ waits' = [waits EXCEPT ![t] = 0]
  /\ UNCHANGED <<mode, answer>>

Tick ==
  /\ pool' = PoolSecond(pool)
  /\ UNCHANGED <<mode, waits, answer>>

Init ==
  /\ pool = upstream_pool_register
  /\ mode \in Modes
  /\ waits = [t \in Targets |-> 0]
  /\ answer = [target |-> 0, up |-> Targets, rr |-> 0]

Next ==
  \/ \E start \in Targets : Resolve(start)
  \/ \E t \in Targets : Finish(t) \/ Fail(t)
  \/ Tick

Spec == Init /\ [][Next]_vars

-----------------------------------------------------------------------------
(* Properties.                                                                *)

\* The pool and the observations keep their types.
TypeOK ==
  /\ pool \in Pools /\ mode \in Modes
  /\ waits \in [Targets -> 0..WaitCap]
  /\ answer \in [target : Targets \cup {NoTarget}, up : SUBSET Targets,
                 rr : 0..(CounterMod - 1)]

NearWrap == mode = "round-robin" /\ answer.rr + NumTargets > CounterMod

\* Away from the wrap of rr_counter, upstream_pool_resolve answers with a target
\* that is up, and with none only when every target is down, in every mode and
\* after any history of failures and recoveries.
AnswersHealthy ==
  IF answer.target # NoTarget THEN answer.target \in answer.up
  ELSE NearWrap \/ answer.up = {}

\* Round-robin starves no target: one that stays healthy is chosen at least once
\* in every 2 * num_targets - 1 requests, across failures of the others and the
\* wrap of the counter.
NoStarvation ==
  mode = "round-robin" => \A t \in Targets : waits[t] < 2 * NumTargets - 1
=============================================================================
