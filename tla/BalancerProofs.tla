--------------------------- MODULE BalancerProofs ---------------------------
(***************************************************************************)
(* Proofs about the choice of an upstream target, for any number of targets *)
(* up to the range of rr_counter, any retry timeout and any load.           *)
(***************************************************************************)
EXTENDS Balancer, UpstreamPoolProofs

(* After d more requests the round-robin counter, now c, points at target t: *)
(* before it wraps, or in the round that begins with the wrap.               *)
PointsAt(c, d, t) ==
  \/ c + d < CounterMod /\ (c + d) % NumTargets = t
  \/ c + d = CounterMod + t

(* A target that has waited w requests is pointed at before it has waited    *)
(* 2 * num_targets - 1.                                                      *)
TurnComes(c, t, w) ==
  \E d \in 0..(2 * NumTargets - 2) : w + d <= 2 * NumTargets - 2 /\ PointsAt(c, d, t)

IInv ==
  /\ TypeOK /\ AnswersHealthy
  /\ mode = "round-robin" => \A t \in Targets : TurnComes(pool.rr, t, waits[t])

-----------------------------------------------------------------------------
(* Turns.                                                                    *)

\* From any counter every target's turn comes, however the counter wraps.
LEMMA TurnAlwaysComes ==
  ASSUME NEW c \in 0..(CounterMod - 1), NEW t \in Targets
  PROVE  TurnComes(c, t, 0)
  <1>1. NumTargets \in Nat \ {0} /\ CounterMod \in Nat \ {0} /\ c \in Nat /\ t \in 0..(NumTargets - 1)
    BY PoolAssumption DEF Targets
  <1>2. PICK d \in 0..(NumTargets - 1) : (c + d) % NumTargets = t
    BY <1>1, EveryRemainder
  <1>3. CASE c + d < CounterMod
    <2>1. d \in 0..(2 * NumTargets - 2) /\ 0 + d <= 2 * NumTargets - 2
      BY <1>1, <1>2
    <2> QED
      BY <1>2, <1>3, <2>1 DEF TurnComes, PointsAt
  <1>4. CASE ~(c + d < CounterMod)
    <2> DEFINE e == (CounterMod + t) - c
    <2>1. e \in 0..(2 * NumTargets - 2) /\ 0 + e <= 2 * NumTargets - 2 /\ c + e = CounterMod + t
      BY <1>1, <1>2, <1>4
    <2> HIDE DEF e
    <2> QED
      BY <2>1 DEF TurnComes, PointsAt
  <1> QED
    BY <1>3, <1>4

\* A request that passes over a target brings its turn one request nearer.
LEMMA TurnNearer ==
  ASSUME NEW c \in 0..(CounterMod - 1), NEW t \in Targets, NEW w \in Nat,
         TurnComes(c, t, w), c % NumTargets # t
  PROVE  /\ w + 1 <= 2 * NumTargets - 2
         /\ TurnComes((c + 1) % CounterMod, t, w + 1)
  <1>1. NumTargets \in Nat \ {0} /\ CounterMod \in Nat \ {0} /\ NumTargets <= CounterMod
        /\ t \in 0..(NumTargets - 1)
    BY PoolAssumption DEF Targets
  <1>2. PICK d \in 0..(2 * NumTargets - 2) : w + d <= 2 * NumTargets - 2 /\ PointsAt(c, d, t)
    BY DEF TurnComes
  <1>3. d # 0
    <2>1. SUFFICES ASSUME d = 0 PROVE FALSE
      OBVIOUS
    <2>2. c + d = c /\ c # CounterMod + t
      BY <1>1, <2>1
    <2> QED
      BY <1>2, <2>2 DEF PointsAt
  <1> DEFINE e == d - 1
  <1>4. e \in 0..(2 * NumTargets - 2) /\ (w + 1) + e <= 2 * NumTargets - 2 /\ w + 1 <= 2 * NumTargets - 2
    BY <1>1, <1>2, <1>3
  <1>5. PointsAt((c + 1) % CounterMod, e, t)
    <2>1. CASE c + 1 < CounterMod
      <3>1. c + 1 \in 0..(CounterMod - 1)
        BY <1>1, <2>1
      <3>2. (c + 1) % CounterMod = c + 1
        BY <1>1, <3>1, RemainderSmall
      <3>3. (c + 1) + e = c + d
        BY <1>2
      <3> QED
        BY <1>2, <3>2, <3>3 DEF PointsAt
    <2>2. CASE ~(c + 1 < CounterMod)
      <3>1. c + 1 = CounterMod
        BY <1>1, <2>2
      <3>2. CounterMod * 1 + 0 = CounterMod /\ 1 \in Nat /\ 0 \in 0..(CounterMod - 1)
        BY <1>1
      <3>3. (CounterMod * 1 + 0) % CounterMod = 0
        BY <1>1, <3>2, RemainderOf
      <3>4. (c + 1) % CounterMod = 0
        BY <3>1, <3>2, <3>3
      <3>5. ~(c + d < CounterMod)
        BY <1>1, <1>2, <1>3, <3>1
      <3>6. c + d = CounterMod + t
        BY <1>2, <3>5 DEF PointsAt
      <3>7. 0 + e = t /\ 0 + e < CounterMod
        BY <1>1, <1>2, <3>1, <3>6
      <3>8. t % NumTargets = t
        BY <1>1, RemainderSmall
      <3> QED
        BY <3>4, <3>7, <3>8 DEF PointsAt
    <2> QED
      BY <2>1, <2>2
  <1> HIDE DEF e
  <1> QED
    BY <1>4, <1>5 DEF TurnComes

-----------------------------------------------------------------------------
(* The invariant.                                                            *)

\* The freshly registered pool satisfies the invariant.
LEMMA InitIInv == Init => IInv
  <1>1. SUFFICES ASSUME Init PROVE IInv
    OBVIOUS
  <1>2. NumTargets \in Nat \ {0} /\ CounterMod \in Nat \ {0} /\ RetryTimeout \in Nat \ {0}
        /\ 0 \in Targets /\ 0 \in 0..(CounterMod - 1) /\ 0 \in 0..WaitCap /\ 0 \in 0..RetryTimeout
    BY PoolAssumption DEF Targets, WaitCap
  <1>3. pool \in Pools /\ pool.rr = 0
    BY <1>1, <1>2 DEF Init, upstream_pool_register, Pools
  <1>4. TypeOK
    BY <1>1, <1>2, <1>3 DEF Init, TypeOK
  <1>5. AnswersHealthy
    <2>1. 0 # NoTarget
      BY DEF NoTarget
    <2> QED
      BY <1>1, <1>2, <2>1 DEF Init, AnswersHealthy
  <1>6. \A t \in Targets : TurnComes(pool.rr, t, waits[t])
    BY <1>1, <1>2, <1>3, TurnAlwaysComes DEF Init
  <1> QED
    BY <1>4, <1>5, <1>6 DEF IInv

\* upstream_pool_resolve keeps the invariant: it answers with a healthy target, and the
\* turn of every target it passes over comes one call nearer.
LEMMA ResolveStep ==
  ASSUME IInv, NEW start \in Targets, Resolve(start)
  PROVE  IInv'
  <1> DEFINE t == upstream_pool_resolve(pool, mode, start)
  <1>1. /\ pool' = Resolved(pool, mode, t) /\ mode' = mode
        /\ waits' = [u \in Targets |->
             IF u = t \/ ~Healthy(pool, u) THEN 0
             ELSE IF waits[u] < WaitCap THEN waits[u] + 1 ELSE WaitCap]
        /\ answer' = [target |-> t, up |-> Up(pool), rr |-> pool.rr]
    BY DEF Resolve
  <1>2. pool \in Pools /\ mode \in Modes /\ waits \in [Targets -> 0..WaitCap]
        /\ pool.rr \in 0..(CounterMod - 1)
    BY DEF IInv, TypeOK, Pools
  <1>3. NumTargets \in Nat \ {0} /\ CounterMod \in Nat \ {0} /\ WaitCap = 2 * NumTargets
    BY PoolAssumption DEF WaitCap
  <1>4. /\ t \in Targets \cup {NoTarget}
        /\ t # NoTarget => Healthy(pool, t)
        /\ t = NoTarget => \/ mode = "round-robin" /\ pool.rr + NumTargets > CounterMod
                           \/ \A u \in Targets : ~Healthy(pool, u)
        /\ mode = "round-robin" /\ Healthy(pool, pool.rr % NumTargets) => t = pool.rr % NumTargets
    BY <1>2, ResolveIs
  <1> HIDE DEF t
  <1>5. /\ pool' \in Pools
        /\ mode = "round-robin" => pool'.rr = (pool.rr + 1) % CounterMod
    <2> DEFINE A == AfterResolve(pool, mode)
    <2>1. A \in Pools /\ (mode = "round-robin" => A.rr = (pool.rr + 1) % CounterMod)
      BY <1>2, PoolStepsTyped
    <2> HIDE DEF A
    <2>2. pool' = IF t = NoTarget THEN A ELSE upstream_pool_inc_conn(A, t)
      BY <1>1 DEF Resolved, A
    <2>3. t # NoTarget => upstream_pool_inc_conn(A, t) \in Pools /\ upstream_pool_inc_conn(A, t).rr = A.rr
      BY <1>4, <2>1, PoolStepsTyped
    <2> QED
      BY <2>1, <2>2, <2>3
  <1>6. waits' \in [Targets -> 0..WaitCap]
    BY <1>1, <1>2, <1>3
  <1>7. TypeOK'
    BY <1>1, <1>2, <1>4, <1>5, <1>6 DEF TypeOK, Up
  <1>8. AnswersHealthy'
    BY <1>1, <1>4 DEF AnswersHealthy, NearWrap, Up
  <1>9. mode = "round-robin" => \A u \in Targets : TurnComes(pool'.rr, u, waits'[u])
    <2>1. HAVE mode = "round-robin"
    <2>2. TAKE u \in Targets
    <2>3. CASE u = t \/ ~Healthy(pool, u)
      BY <1>1, <1>5, <2>3, TurnAlwaysComes DEF Pools
    <2>4. CASE u # t /\ Healthy(pool, u)
      <3>1. pool.rr % NumTargets # u
        BY <1>4, <2>1, <2>4
      <3>2. TurnComes(pool.rr, u, waits[u]) /\ waits[u] \in Nat
        BY <1>2, <1>3, <2>1 DEF IInv
      <3>3. /\ waits[u] + 1 <= 2 * NumTargets - 2
            /\ TurnComes((pool.rr + 1) % CounterMod, u, waits[u] + 1)
        BY <1>2, <3>1, <3>2, TurnNearer
      <3>4. waits[u] < WaitCap
        BY <1>3, <3>2, <3>3
      <3> QED
        BY <1>1, <1>5, <2>1, <2>4, <3>3, <3>4
    <2> QED
      BY <2>3, <2>4
  <1> QED
    BY <1>1, <1>7, <1>8, <1>9 DEF IInv

\* The other steps move neither the counter nor the last answer, and no target
\* waits longer.
LEMMA OtherStep ==
  ASSUME IInv, mode' = mode, answer' = answer, pool' \in Pools, pool'.rr = pool.rr,
         waits' \in [Targets -> 0..WaitCap],
         \A t \in Targets : waits'[t] \in {0, waits[t]}
  PROVE  IInv'
  <1>1. TypeOK'
    BY DEF IInv, TypeOK
  <1>2. AnswersHealthy'
    BY DEF IInv, AnswersHealthy, NearWrap
  <1>3. pool.rr \in 0..(CounterMod - 1)
    BY DEF IInv, TypeOK, Pools
  <1>4. \A t \in Targets : TurnComes(pool.rr, t, 0)
    BY <1>3, TurnAlwaysComes
  <1>5. mode = "round-robin" => \A t \in Targets : TurnComes(pool.rr, t, waits[t])
    BY DEF IInv
  <1> QED
    BY <1>1, <1>2, <1>4, <1>5 DEF IInv

\* Every call on the pool, and every second, keeps the invariant.
LEMMA StepIInv == IInv /\ [Next]_vars => IInv'
  <1>1. SUFFICES ASSUME IInv, [Next]_vars PROVE IInv'
    OBVIOUS
  <1>2. pool \in Pools /\ waits \in [Targets -> 0..WaitCap] /\ 0 \in 0..WaitCap
    BY <1>1, PoolAssumption DEF IInv, TypeOK, WaitCap
  <1>3. ASSUME NEW start \in Targets, Resolve(start) PROVE IInv'
    BY <1>1, <1>3, ResolveStep
  <1>4. ASSUME NEW t \in Targets, Finish(t) PROVE IInv'
    <2>1. pool' \in Pools /\ pool'.rr = pool.rr
      BY <1>2, <1>4, PoolStepsTyped DEF Finish
    <2> QED
      BY <1>1, <1>2, <1>4, <2>1, OtherStep DEF Finish
  <1>5. ASSUME NEW t \in Targets, Fail(t) PROVE IInv'
    <2> DEFINE D == upstream_pool_mark_down(pool, t)
    <2>1. D \in Pools /\ D.rr = pool.rr
      BY <1>2, PoolStepsTyped
    <2>2. pool' = upstream_pool_dec_conn(D, t)
      BY <1>5 DEF Fail
    <2> HIDE DEF D
    <2>3. pool' \in Pools /\ pool'.rr = pool.rr
      BY <2>1, <2>2, PoolStepsTyped
    <2>4. waits' \in [Targets -> 0..WaitCap] /\ \A u \in Targets : waits'[u] \in {0, waits[u]}
      BY <1>2, <1>5 DEF Fail
    <2> QED
      BY <1>1, <1>5, <2>3, <2>4, OtherStep DEF Fail
  <1>6. CASE Tick
    <2>1. pool' \in Pools /\ pool'.rr = pool.rr
      BY <1>2, <1>6, PoolStepsTyped DEF Tick
    <2> QED
      BY <1>1, <1>2, <1>6, <2>1, OtherStep DEF Tick
  <1>7. CASE UNCHANGED vars
    BY <1>1, <1>2, <1>7, OtherStep DEF vars
  <1> QED
    BY <1>1, <1>3, <1>4, <1>5, <1>6, <1>7 DEF Next

\* The inductive invariant of the pool holds in every reachable state.
THEOREM Invariance == Spec => []IInv
  <1> QED
    BY InitIInv, StepIInv, PTL DEF Spec

\* The functions on UpstreamPool keep its counters within their types.
THEOREM PoolTyped == Spec => []TypeOK
  <1>1. IInv => TypeOK
    BY DEF IInv
  <1> QED
    BY <1>1, Invariance, PTL

\* Every mode of upstream_pool_resolve answers with a target that is up while one
\* is, except where rr_counter wraps within the scan.
THEOREM AnswersAlwaysHealthy == Spec => []AnswersHealthy
  <1>1. IInv => AnswersHealthy
    BY DEF IInv
  <1> QED
    BY <1>1, Invariance, PTL

\* Round-robin comes back to every healthy target within 2 * num_targets - 1
\* requests, whatever the number of targets and wherever rr_counter wraps.
THEOREM NobodyStarves == Spec => []NoStarvation
  <1>1. IInv => NoStarvation
    <2>1. SUFFICES ASSUME IInv, mode = "round-robin", NEW t \in Targets
                   PROVE  waits[t] < 2 * NumTargets - 1
      BY DEF NoStarvation
    <2>2. PICK d \in 0..(2 * NumTargets - 2) : waits[t] + d <= 2 * NumTargets - 2
      BY <2>1 DEF IInv, TurnComes
    <2>3. waits[t] \in Nat /\ NumTargets \in Nat \ {0}
      BY <2>1, PoolAssumption DEF IInv, TypeOK, WaitCap
    <2> QED
      BY <2>2, <2>3
  <1> QED
    BY <1>1, Invariance, PTL
=============================================================================
