------------------------- MODULE UpstreamPoolProofs -------------------------
(***************************************************************************)
(* Lemmas about UpstreamPool: what upstream_pool_resolve answers in each    *)
(* mode, and that the pool's functions keep it a pool.                      *)
(***************************************************************************)
EXTENDS UpstreamPool, WellFoundedInduction, TLAPS

-----------------------------------------------------------------------------
(* Remainders, and the order in which the targets are tried.                 *)

\* An index below num_targets is its own remainder.
LEMMA RemainderSmall ==
  ASSUME NEW n \in Nat \ {0}, NEW x \in 0..(n - 1)
  PROVE  x % n = x
  OBVIOUS

\* A remainder is an index of the pool.
LEMMA RemainderTyped ==
  ASSUME NEW n \in Nat \ {0}, NEW x \in Nat
  PROVE  x % n \in 0..(n - 1)
  OBVIOUS

\* Whole turns of the rotation change nothing.
LEMMA RemainderOf ==
  ASSUME NEW n \in Nat \ {0}, NEW q \in Nat, NEW t \in 0..(n - 1)
  PROVE  (n * q + t) % n = t
  OBVIOUS

\* The first num_targets numbers from any c on have every remainder.
LEMMA EveryRemainder ==
  ASSUME NEW n \in Nat \ {0}, NEW c \in Nat, NEW t \in 0..(n - 1)
  PROVE  \E d \in 0..(n - 1) : (c + d) % n = t
  <1> DEFINE q == c \div n
             s == c % n
  <1>1. c = n * q + s /\ q \in Nat
    OBVIOUS
  <1>2. s \in 0..(n - 1)
    BY RemainderTyped
  <1> HIDE DEF q, s
  <1>3. CASE s <= t
    <2>1. t - s \in 0..(n - 1) /\ c + (t - s) = n * q + t
      BY <1>1, <1>2, <1>3
    <2>2. (c + (t - s)) % n = t
      BY <1>1, <2>1, RemainderOf
    <2> QED
      BY <2>1, <2>2
  <1>4. CASE ~(s <= t)
    <2>1. (t + n) - s \in 0..(n - 1)
      BY <1>2, <1>4
    <2>2. q + 1 \in Nat /\ n * (q + 1) = n * q + n
      BY <1>1
    <2>3. n * q \in Nat /\ n * (q + 1) \in Nat
      BY <1>1
    <2>4. c + ((t + n) - s) = n * (q + 1) + t
      BY <1>1, <1>2, <2>2, <2>3
    <2>5. (n * (q + 1) + t) % n = t
      BY <2>2, RemainderOf
    <2> QED
      BY <2>1, <2>4, <2>5
  <1> QED
    BY <1>3, <1>4

\* Natural numbers have least elements.
LEMMA LeastNat ==
  ASSUME NEW T, T \subseteq Nat, T # {}
  PROVE  \E i \in T : \A j \in T : i <= j
  <1> DEFINE R == OpToRel(<, Nat)
  <1>1. IsWellFoundedOn(R, Nat)
    BY NatLessThanWellFounded
  <1>2. \A i, j \in Nat : <<j, i>> \in R <=> j < i
    BY DEF OpToRel
  <1> HIDE DEF R
  <1>3. PICK i \in T : \A j \in T : ~(<<j, i>> \in R)
    BY <1>1, WFMin
  <1>4. \A j \in T : i <= j
    <2>1. TAKE j \in T
    <2>2. i \in Nat /\ j \in Nat
      OBVIOUS
    <2>3. ~(j < i)
      BY <1>2, <1>3, <2>2
    <2> QED
      BY <2>2, <2>3
  <1> QED
    BY <1>4

\* The order of the tries stays within the pool.
LEMMA ScansTyped ==
  /\ \A start \in Targets : ScanFrom(start) \in [Targets -> Targets]
  /\ \A c \in 0..(CounterMod - 1) : ScanCounter(c) \in [Targets -> Targets]
  <1>1. NumTargets \in Nat \ {0} /\ CounterMod \in Nat \ {0}
    BY PoolAssumption
  <1>2. \A x \in Nat : x % NumTargets \in Targets /\ x % CounterMod \in Nat
    BY <1>1, RemainderTyped DEF Targets
  <1>3. \A start, k \in Targets : (start + k) % NumTargets \in Targets
    BY <1>2 DEF Targets
  <1>4. \A c \in 0..(CounterMod - 1), k \in Targets : ((c + k) % CounterMod) % NumTargets \in Targets
    <2>1. TAKE c \in 0..(CounterMod - 1), k \in Targets
    <2>2. c + k \in Nat
      BY <1>1 DEF Targets
    <2> QED
      BY <1>2, <2>2
  <1> QED
    BY <1>3, <1>4 DEF ScanFrom, ScanCounter

\* What a scan answers: the healthy target that comes first, or that none is on it.
LEMMA FirstHealthyIs ==
  ASSUME NEW P, NEW scan \in [Targets -> Targets]
  PROVE  /\ FirstHealthy(P, scan) \in Targets \cup {NoTarget}
         /\ FirstHealthy(P, scan) # NoTarget => Healthy(P, FirstHealthy(P, scan))
         /\ FirstHealthy(P, scan) = NoTarget => \A k \in Targets : ~Healthy(P, scan[k])
         /\ \A k \in Targets : k = 0 /\ Healthy(P, scan[k]) => FirstHealthy(P, scan) = scan[k]
  <1> DEFINE H == {k \in Targets : Healthy(P, scan[k])}
             m == CHOOSE k \in H : \A j \in H : k <= j
  <1>1. Targets \subseteq Nat /\ NoTarget \notin Targets
    BY PoolAssumption DEF Targets, NoTarget
  <1>2. FirstHealthy(P, scan) = IF H = {} THEN NoTarget ELSE scan[m]
    BY DEF FirstHealthy
  <1>3. H # {} => m \in H /\ \A j \in H : m <= j
    <2>1. HAVE H # {}
    <2>2. H \subseteq Nat
      BY <1>1
    <2> HIDE DEF H
    <2>3. \E k \in H : \A j \in H : k <= j
      BY <2>1, <2>2, LeastNat
    <2> QED
      BY <2>3
  <1>4. H \subseteq Targets /\ \A k \in Targets : k \in H <=> Healthy(P, scan[k])
    OBVIOUS
  <1> HIDE DEF H, m
  <1>5. CASE H = {}
    BY <1>2, <1>4, <1>5
  <1>6. CASE H # {}
    <2>1. m \in Targets /\ scan[m] \in Targets /\ Healthy(P, scan[m])
      BY <1>3, <1>4, <1>6
    <2>2. \A k \in Targets : k = 0 /\ Healthy(P, scan[k]) => m = k
      <3>1. TAKE k \in Targets
      <3>2. HAVE k = 0 /\ Healthy(P, scan[k])
      <3>3. m <= 0 /\ m \in Nat
        BY <1>1, <1>3, <1>4, <1>6, <2>1, <3>2
      <3> QED
        BY <3>2, <3>3
    <2> QED
      BY <1>1, <1>2, <1>6, <2>1, <2>2
  <1> QED
    BY <1>5, <1>6

\* least-conn answers with a healthy target when there is one.
LEMMA LeastConnIs ==
  ASSUME NEW P \in Pools
  PROVE  /\ LeastConn(P) \in Targets \cup {NoTarget}
         /\ LeastConn(P) # NoTarget => Healthy(P, LeastConn(P))
         /\ LeastConn(P) = NoTarget => \A t \in Targets : ~Healthy(P, t)
  <1> DEFINE H == {t \in Targets : Healthy(P, t)}
             M == {t \in H : \A u \in H : P.active[t] <= P.active[u]}
             m == CHOOSE t \in M : \A u \in M : t <= u
  <1>1. Targets \subseteq Nat /\ NoTarget \notin Targets
    BY PoolAssumption DEF Targets, NoTarget
  <1>2. \A t \in Targets : P.active[t] \in Nat
    BY DEF Pools
  <1>3. LeastConn(P) = IF H = {} THEN NoTarget ELSE m
    BY DEF LeastConn
  <1>4. H \subseteq Targets /\ \A t \in Targets : t \in H <=> Healthy(P, t)
    OBVIOUS
  <1>5. M \subseteq H /\ \A t \in H : (\A u \in H : P.active[t] <= P.active[u]) => t \in M
    OBVIOUS
  <1> HIDE DEF H, M
  <1>6. H # {} => M # {}
    <2>1. HAVE H # {}
    <2> DEFINE A == {P.active[t] : t \in H}
    <2>2. A \subseteq Nat /\ A # {}
      BY <1>2, <1>4, <2>1
    <2>3. PICK a \in A : \A b \in A : a <= b
      <3> HIDE DEF A
      <3> QED
        BY <2>2, LeastNat
    <2>4. PICK t \in H : a = P.active[t]
      BY <2>3
    <2>5. \A u \in H : P.active[t] <= P.active[u]
      BY <2>3, <2>4
    <2> QED
      BY <1>5, <2>5
  <1>7. M # {} => m \in M
    <2>1. HAVE M # {}
    <2>2. M \subseteq Nat
      BY <1>1, <1>4, <1>5
    <2>3. \E t \in M : \A u \in M : t <= u
      BY <2>1, <2>2, LeastNat
    <2> QED
      BY <2>3
  <1> HIDE DEF m
  <1> QED
    BY <1>1, <1>3, <1>4, <1>5, <1>6, <1>7

\* upstream_pool_resolve answers with a healthy target.  It answers with none when
\* all are down, and in round-robin also where the counter wraps during the scan.
\* Round-robin takes the target the counter points at, if that one is healthy.
LEMMA ResolveIs ==
  ASSUME NEW P \in Pools, NEW m \in Modes, NEW start \in Targets, NEW t,
         t = upstream_pool_resolve(P, m, start)
  PROVE  /\ t \in Targets \cup {NoTarget}
         /\ t # NoTarget => Healthy(P, t)
         /\ t = NoTarget => \/ m = "round-robin" /\ P.rr + NumTargets > CounterMod
                            \/ \A u \in Targets : ~Healthy(P, u)
         /\ m = "round-robin" /\ Healthy(P, P.rr % NumTargets) => t = P.rr % NumTargets
  <1>1. NumTargets \in Nat \ {0} /\ CounterMod \in Nat \ {0} /\ P.rr \in 0..(CounterMod - 1)
    BY PoolAssumption DEF Pools
  <1>2. CASE m = "round-robin"
    <2> DEFINE scan == ScanCounter(P.rr)
    <2>1. t = FirstHealthy(P, scan)
      BY <1>2 DEF upstream_pool_resolve
    <2>2. scan \in [Targets -> Targets]
      BY <1>1, ScansTyped
    <2>3. \A k \in Targets : scan[k] = ((P.rr + k) % CounterMod) % NumTargets
      BY DEF ScanCounter
    <2> HIDE DEF scan
    <2>4. 0 \in Targets /\ scan[0] = P.rr % NumTargets
      <3>1. 0 \in Targets /\ P.rr + 0 = P.rr
        BY <1>1 DEF Targets
      <3>2. P.rr % CounterMod = P.rr
        BY <1>1, RemainderSmall
      <3> QED
        BY <2>3, <3>1, <3>2
    <2>5. P.rr + NumTargets <= CounterMod => \A u \in Targets : \E k \in Targets : scan[k] = u
      <3>1. HAVE P.rr + NumTargets <= CounterMod
      <3>2. TAKE u \in Targets
      <3>3. u \in 0..(NumTargets - 1) /\ P.rr \in Nat
        BY <1>1 DEF Targets
      <3>4. PICK k \in 0..(NumTargets - 1) : (P.rr + k) % NumTargets = u
        BY <1>1, <3>3, EveryRemainder
      <3>5. P.rr + k \in 0..(CounterMod - 1)
        BY <1>1, <3>1, <3>4
      <3>6. (P.rr + k) % CounterMod = P.rr + k
        BY <1>1, <3>5, RemainderSmall
      <3> QED
        BY <2>3, <3>4, <3>6 DEF Targets
    <2>6. P.rr + NumTargets > CounterMod \/ P.rr + NumTargets <= CounterMod
      BY <1>1
    <2> QED
      BY <1>2, <2>1, <2>2, <2>4, <2>5, <2>6, FirstHealthyIs
  <1>3. CASE m = "least-conn"
    BY <1>3, LeastConnIs DEF upstream_pool_resolve
  <1>4. CASE m \notin {"round-robin", "least-conn"}
    <2> DEFINE scan == ScanFrom(start)
    <2>1. t = FirstHealthy(P, scan)
      BY <1>4 DEF upstream_pool_resolve, Modes
    <2>2. scan \in [Targets -> Targets]
      BY ScansTyped
    <2>3. \A u \in Targets : \E k \in Targets : scan[k] = u
      <3>1. TAKE u \in Targets
      <3>2. u \in 0..(NumTargets - 1) /\ start \in Nat
        BY <1>1 DEF Targets
      <3>3. PICK k \in 0..(NumTargets - 1) : (start + k) % NumTargets = u
        BY <1>1, <3>2, EveryRemainder
      <3> QED
        BY <3>3 DEF ScanFrom, Targets
    <2> HIDE DEF scan
    <2> QED
      BY <1>4, <2>1, <2>2, <2>3, FirstHealthyIs
  <1> QED
    BY <1>2, <1>3, <1>4

-----------------------------------------------------------------------------
(* The pool's functions keep it a pool; only a resolve moves the counter.    *)

\* Every function on the pool returns a pool, and only resolve moves rr_counter.
LEMMA PoolStepsTyped ==
  ASSUME NEW P \in Pools
  PROVE  /\ \A m \in Modes : /\ AfterResolve(P, m) \in Pools
                             /\ m = "round-robin" => AfterResolve(P, m).rr = (P.rr + 1) % CounterMod
         /\ \A t \in Targets :
              /\ upstream_pool_inc_conn(P, t) \in Pools /\ upstream_pool_inc_conn(P, t).rr = P.rr
              /\ upstream_pool_dec_conn(P, t) \in Pools /\ upstream_pool_dec_conn(P, t).rr = P.rr
              /\ upstream_pool_mark_down(P, t) \in Pools /\ upstream_pool_mark_down(P, t).rr = P.rr
         /\ PoolSecond(P) \in Pools /\ PoolSecond(P).rr = P.rr
  <1>1. NumTargets \in Nat \ {0} /\ CounterMod \in Nat \ {0} /\ RetryTimeout \in Nat \ {0}
    BY PoolAssumption
  <1>2. (P.rr + 1) % CounterMod \in 0..(CounterMod - 1)
    <2>1. P.rr + 1 \in Nat
      BY <1>1 DEF Pools
    <2> QED
      BY <1>1, <2>1, RemainderTyped
  <1>3. \A m \in Modes : /\ AfterResolve(P, m) \in Pools
                         /\ m = "round-robin" => AfterResolve(P, m).rr = (P.rr + 1) % CounterMod
    BY <1>2 DEF AfterResolve, Pools
  <1>4. \A t \in Targets :
          upstream_pool_inc_conn(P, t) \in Pools /\ upstream_pool_inc_conn(P, t).rr = P.rr
    BY DEF upstream_pool_inc_conn, Pools
  <1>5. \A t \in Targets :
          upstream_pool_dec_conn(P, t) \in Pools /\ upstream_pool_dec_conn(P, t).rr = P.rr
    BY DEF upstream_pool_dec_conn, Pools
  <1>6. \A t \in Targets :
          upstream_pool_mark_down(P, t) \in Pools /\ upstream_pool_mark_down(P, t).rr = P.rr
    BY <1>1 DEF upstream_pool_mark_down, Pools
  <1>7. PoolSecond(P) \in Pools /\ PoolSecond(P).rr = P.rr
    <2>1. \A t \in Targets : (IF P.down[t] > 0 THEN P.down[t] - 1 ELSE 0) \in 0..RetryTimeout
      BY <1>1 DEF Pools
    <2> QED
      BY <2>1 DEF PoolSecond, Pools
  <1> QED
    BY <1>3, <1>4, <1>5, <1>6, <1>7
=============================================================================
