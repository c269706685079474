------------------------- MODULE ProxyExchangeProofs -------------------------
(***************************************************************************)
(* Proofs about the life of a proxied request, for any number of clients,  *)
(* descriptors and targets, every balancing mode and every size of the     *)
(* keep-alive pool.                                                        *)
(***************************************************************************)
EXTENDS ProxyExchange, UpstreamPoolProofs, FiniteSetTheorems

(* The open client descriptors O, proxy_states X, upstream_fd_to_client M,   *)
(* the idle pool Q, the upstream sockets K and those whose exchange was       *)
(* overwritten, V, agree.  An idle socket is not in the map: it could be      *)
(* closed or reused under the eyes of its old client.                         *)
Linked(O, X, M, Q, K, V) ==
  /\ \A c \in Fds : X[c].up # 0 =>
       K[X[c].up] = X[c].target /\ M[X[c].up] = c /\ X[c].up \notin Q
  /\ \A u \in Fds : M[u] # 0 => K[u] # NoTarget /\ (u \notin V => X[M[u]].up = u)
  /\ \A u \in Q : K[u] # NoTarget /\ M[u] = 0
  /\ \A u \in Fds : K[u] # NoTarget => u \in Q \/ M[u] # 0
  /\ \A u \in O : K[u] = NoTarget

(* The sockets that active_connections of target t should count.             *)
InUse(Q, K, t) == {u \in Fds \ Q : K[u] = t}

CountedIn(A, Q, K) == \A t \in HttpTargets : A[t] = Cardinality(InUse(Q, K, t))

ServerInv(S) ==
  /\ S \in Servers /\ S.tab.open \subseteq Mapped(S.tab)
  /\ Linked(S.tab.open, S.states, S.tocli, S.pooled, S.sock, S.over)
  /\ CountedIn(S.pool.active, S.pooled, S.sock)

(* From X to Y no exchange that is still connecting has become older.         *)
NoOlder(X, Y) ==
  \A c \in Fds : Y[c].up # 0 /\ ~Y[c].connected /\ Y[c].age # 0 =>
    X[c].up # 0 /\ ~X[c].connected /\ X[c].age = Y[c].age

Kept(S, R) == ServerInv(R) /\ NoOlder(S.states, R.states)

IInv ==
  /\ ServerInv(srv)
  /\ phase \in {"events", "proxy"} /\ todo \in SUBSET Fds /\ swept \in BOOLEAN
  /\ n_stale \in Nat /\ ConnectSwept
  /\ phase = "proxy" /\ n_stale # ProxySweepMax => Due(srv) \subseteq todo

StateTables == [Fds -> ProxyState]
ClientMaps == [Fds -> {0} \cup Fds]
SocketTables == [Fds -> Targets \cup {NoTarget}]

Good(O, X, M, Q, K, A, V) ==
  /\ O \in SUBSET Fds /\ X \in StateTables /\ M \in ClientMaps /\ Q \in SUBSET Fds
  /\ K \in SocketTables /\ A \in [Targets -> Nat]
  /\ Linked(O, X, M, Q, K, V) /\ CountedIn(A, Q, K)

(* Y is X except at a.                                                        *)
OtherwiseSame(D, a, X, Y) == \A d \in D \ {a} : Y[d] = X[d]

(* proxy_cleanup takes the exchange of c and its socket u out of the maps; the *)
(* socket is closed, or goes to the idle pool.                                *)
Released(X, M, Q, K, A, c, u, t, X2, M2, Q2, K2, A2) ==
  /\ c \in Fds /\ X[c].up # 0 /\ u = X[c].up /\ t = X[c].target
  /\ X2[c] = NoState /\ OtherwiseSame(Fds, c, X, X2)
  /\ M2[u] = 0 /\ OtherwiseSame(Fds, u, M, M2)
  /\ A2[t] = (IF A[t] > 0 THEN A[t] - 1 ELSE A[t]) /\ OtherwiseSame(Targets, t, A, A2)
  /\ Q2 \in SUBSET Fds /\ OtherwiseSame(Fds, u, K, K2) /\ Q2 \ {u} = Q \ {u}
  /\ (u \in Q2 /\ K2[u] = K[u]) \/ (u \notin Q2 /\ K2[u] = NoTarget)

(* The kernel closes idle sockets.                                            *)
IdleClosed(Q, K, U, Q2, K2) ==
  /\ U \in SUBSET Q /\ Q2 = Q \ U
  /\ \A u \in U : K2[u] = NoTarget
  /\ \A u \in Fds \ U : K2[u] = K[u]

(* proxy_handler gives client c a socket u to target t: one from the idle     *)
(* pool, or a new one.                                                        *)
Given(O, X, M, Q, K, A, V, c, u, t, X2, M2, Q2, K2, A2, V2) ==
  /\ c \in Fds /\ u \in Fds /\ t \in Targets
  /\ X2[c] \in ProxyState /\ X2[c].up = u /\ X2[c].target = t /\ OtherwiseSame(Fds, c, X, X2)
  /\ M2[u] = c /\ OtherwiseSame(Fds, u, M, M2)
  /\ A2[t] = A[t] + 1 /\ OtherwiseSame(Targets, t, A, A2)
  /\ Q2 = Q \ {u} /\ K2[u] = t /\ OtherwiseSame(Fds, u, K, K2)
  /\ (u \in Q /\ K[u] = t) \/ (u \notin O /\ K[u] = NoTarget)
  /\ V2 = (V \cup ({X[c].up} \ {0})) \ {u}

-----------------------------------------------------------------------------
(* Counting the sockets in use.                                              *)

\* What the assumptions on the constants say of descriptors, targets and timeouts.
LEMMA ConstantFacts ==
  /\ 0 \notin Fds /\ NoTarget \notin Targets /\ HttpTargets \subseteq Targets
  /\ 0 \in Targets /\ ProxyTimeout \in Nat \ {0} /\ PoolIdle \in Nat /\ MaxFd \in Nat \ {0}
  BY PoolAssumption, ExchangeAssumption, TableAssumption DEF Fds, Targets, NoTarget

\* Sets of descriptors are finite, so that sockets can be counted.
LEMMA FdSetsFinite ==
  ASSUME NEW F \in SUBSET Fds
  PROVE  IsFiniteSet(F) /\ Cardinality(F) \in Nat /\ Cardinality(F) <= MaxFd
  <1>1. IsFiniteSet(Fds) /\ Cardinality(Fds) = MaxFd
    BY ConstantFacts, FS_Interval DEF Fds
  <1>2. IsFiniteSet(F) /\ Cardinality(F) <= Cardinality(Fds)
    BY <1>1, FS_Subset
  <1> QED
    BY <1>1, <1>2, FS_CardinalityType

\* Counting a socket that is taken into use.
LEMMA OneMore ==
  ASSUME NEW F \in SUBSET Fds, NEW u \in Fds \ F
  PROVE  Cardinality(F \cup {u}) = Cardinality(F) + 1
  BY FdSetsFinite, FS_AddElement

\* Counting a socket that is given back.
LEMMA OneLess ==
  ASSUME NEW F \in SUBSET Fds, NEW u \in F
  PROVE  Cardinality(F \ {u}) = Cardinality(F) - 1 /\ Cardinality(F) # 0
  <1>1. IsFiniteSet(F) /\ Cardinality(F) \in Nat
    BY FdSetsFinite
  <1>2. Cardinality(F \ {u}) = Cardinality(F) - 1
    BY <1>1, FS_RemoveElement
  <1>3. Cardinality(F) # 0
    BY <1>1, FS_EmptySet
  <1> QED
    BY <1>2, <1>3

-----------------------------------------------------------------------------
(* The five ways in which the maps change.                                    *)

\* proxy_cleanup keeps maps and counters in step, whether the socket is closed or pooled.
LEMMA ReleaseLinked ==
  ASSUME NEW O, NEW X, NEW M, NEW Q, NEW K, NEW A, NEW V,
         Good(O, X, M, Q, K, A, V),
         NEW c, NEW u, NEW t, NEW X2, NEW M2, NEW Q2, NEW K2, NEW A2,
         Released(X, M, Q, K, A, c, u, t, X2, M2, Q2, K2, A2)
  PROVE  Linked(O, X2, M2, Q2, K2, V) /\ CountedIn(A2, Q2, K2)
  <1>0. /\ O \in SUBSET Fds /\ X \in StateTables /\ M \in ClientMaps /\ Q \in SUBSET Fds
        /\ K \in SocketTables /\ A \in [Targets -> Nat]
        /\ Linked(O, X, M, Q, K, V) /\ CountedIn(A, Q, K)
        /\ c \in Fds /\ X[c].up # 0 /\ u = X[c].up /\ t = X[c].target
        /\ X2[c] = NoState /\ (\A d \in Fds \ {c} : X2[d] = X[d])
        /\ M2[u] = 0 /\ (\A v \in Fds \ {u} : M2[v] = M[v])
        /\ A2[t] = (IF A[t] > 0 THEN A[t] - 1 ELSE A[t])
        /\ (\A x \in Targets \ {t} : A2[x] = A[x])
        /\ Q2 \in SUBSET Fds /\ (\A v \in Fds \ {u} : K2[v] = K[v] /\ (v \in Q2 <=> v \in Q))
        /\ (u \in Q2 /\ K2[u] = K[u]) \/ (u \notin Q2 /\ K2[u] = NoTarget)
    BY DEF Good, Released, OtherwiseSame
  <1> USE <1>0
  <1>1. X[c] \in ProxyState /\ NoState.up = 0
    BY DEF StateTables, NoState
  <1>2. u \in Fds /\ t \in Targets
    BY <1>1, ConstantFacts DEF ProxyState
  <1>3. K[u] = t /\ M[u] = c /\ u \notin Q /\ u \notin O /\ t # NoTarget
    BY <1>2, ConstantFacts DEF Linked
  <1>4. X2[c].up = 0 /\ \A d \in Fds \ {c} : X2[d] = X[d]
    BY <1>1
  <1>5. M2[u] = 0 /\ \A v \in Fds \ {u} : M2[v] = M[v]
    OBVIOUS
  <1>6. \A v \in Fds \ {u} : K2[v] = K[v] /\ (v \in Q2 <=> v \in Q)
    OBVIOUS
  <1>7. Q2 \subseteq Fds /\ (u \in Q2 => K2[u] # NoTarget)
    BY <1>2, <1>3
  <1>8. Linked(O, X2, M2, Q2, K2, V)
    <2>1. ASSUME NEW d \in Fds, X2[d].up # 0
          PROVE  K2[X2[d].up] = X2[d].target /\ M2[X2[d].up] = d /\ X2[d].up \notin Q2
      <3>1. d # c /\ X2[d] = X[d]
        BY <1>4, <2>1
      <3>2. X[d].up \in Fds
        BY <2>1, <3>1 DEF StateTables, ProxyState
      <3>3. K[X[d].up] = X[d].target /\ M[X[d].up] = d /\ X[d].up \notin Q
        BY <2>1, <3>1 DEF Linked
      <3>4. X[d].up # u
        BY <1>3, <3>1, <3>3
      <3> QED
        BY <1>5, <1>6, <3>1, <3>2, <3>3, <3>4
    <2>2. ASSUME NEW v \in Fds, M2[v] # 0
          PROVE  K2[v] # NoTarget /\ (v \notin V => X2[M2[v]].up = v)
      <3>1. v # u /\ M2[v] = M[v] /\ M[v] \in Fds
        BY <1>5, <2>2 DEF ClientMaps
      <3>2. K[v] # NoTarget /\ (v \notin V => X[M[v]].up = v)
        BY <2>2, <3>1 DEF Linked
      <3>3. v \notin V => M[v] # c
        BY <3>1, <3>2
      <3> QED
        BY <1>4, <1>6, <3>1, <3>2, <3>3
    <2>3. \A v \in Q2 : K2[v] # NoTarget /\ M2[v] = 0
      BY <1>5, <1>6, <1>7 DEF Linked
    <2>4. \A v \in O : K2[v] = NoTarget
      BY <1>3, <1>6 DEF Linked
    <2>5. \A v \in Fds : K2[v] # NoTarget => v \in Q2 \/ M2[v] # 0
      BY <1>5, <1>6 DEF Linked
    <2> QED
      BY <2>1, <2>2, <2>3, <2>4, <2>5 DEF Linked
  <1>9. CountedIn(A2, Q2, K2)
    <2>1. SUFFICES ASSUME NEW x \in HttpTargets PROVE A2[x] = Cardinality(InUse(Q2, K2, x))
      BY DEF CountedIn
    <2>2. x \in Targets /\ A[x] = Cardinality(InUse(Q, K, x)) /\ A[x] \in Nat
      BY ConstantFacts DEF CountedIn
    <2>3. CASE x = t
      <3>1. InUse(Q2, K2, x) = InUse(Q, K, x) \ {u}
        <4>1. ~(u \notin Q2 /\ K2[u] = t)
          BY <1>2, <1>3 DEF SocketTables
        <4> QED
          BY <1>6, <2>3, <4>1 DEF InUse
      <3>2. u \in InUse(Q, K, x) /\ InUse(Q, K, x) \subseteq Fds
        BY <1>2, <1>3, <2>3 DEF InUse
      <3>3. A[x] # 0 /\ Cardinality(InUse(Q2, K2, x)) = A[x] - 1
        BY <2>2, <3>1, <3>2, OneLess
      <3>4. A[x] > 0
        BY <2>2, <3>3
      <3> QED
        BY <2>2, <2>3, <3>3, <3>4
    <2>4. CASE x # t
      <3>1. InUse(Q2, K2, x) = InUse(Q, K, x)
        <4>1. u \notin InUse(Q2, K2, x) /\ u \notin InUse(Q, K, x)
          <5>1. K2[u] \in {t, NoTarget} /\ x # NoTarget
            BY <1>2, <1>3, <2>2, ConstantFacts DEF SocketTables
          <5> QED
            BY <1>3, <2>4, <5>1 DEF InUse
        <4> QED
          BY <1>6, <4>1 DEF InUse
      <3>2. A2[x] = A[x]
        BY <2>2, <2>4
      <3> QED
        BY <2>2, <3>1, <3>2
    <2> QED
      BY <2>3, <2>4
  <1> QED
    BY <1>8, <1>9

\* Closing idle sockets touches no map and no counter.
LEMMA CloseIdleLinked ==
  ASSUME NEW O, NEW X, NEW M, NEW Q, NEW K, NEW A, NEW V,
         Good(O, X, M, Q, K, A, V),
         NEW U, NEW Q2, NEW K2, IdleClosed(Q, K, U, Q2, K2)
  PROVE  Linked(O, X, M, Q2, K2, V) /\ CountedIn(A, Q2, K2)
  <1>0. /\ O \in SUBSET Fds /\ X \in StateTables /\ M \in ClientMaps /\ Q \in SUBSET Fds
        /\ K \in SocketTables /\ A \in [Targets -> Nat]
        /\ Linked(O, X, M, Q, K, V) /\ CountedIn(A, Q, K)
        /\ U \in SUBSET Q /\ Q2 = Q \ U
        /\ (\A u \in U : K2[u] = NoTarget) /\ (\A u \in Fds \ U : K2[u] = K[u])
    BY DEF Good, IdleClosed
  <1> USE <1>0
  <1>1. \A u \in Fds : K2[u] = IF u \in U THEN NoTarget ELSE K[u]
    OBVIOUS
  <1>2. ASSUME NEW d \in Fds, X[d].up # 0
        PROVE  K2[X[d].up] = X[d].target /\ M[X[d].up] = d /\ X[d].up \notin Q2
    <2>1. X[d].up \in Fds
      BY <1>2 DEF StateTables, ProxyState
    <2>2. K[X[d].up] = X[d].target /\ M[X[d].up] = d /\ X[d].up \notin Q
      BY <1>2 DEF Linked
    <2> QED
      BY <1>1, <2>1, <2>2
  <1>3. \A v \in Fds : M[v] # 0 => K2[v] # NoTarget /\ (v \notin V => X[M[v]].up = v)
    BY <1>1 DEF Linked
  <1>4. \A v \in Q2 : K2[v] # NoTarget /\ M[v] = 0
    BY <1>1 DEF Linked
  <1>5. \A v \in O : K2[v] = NoTarget
    BY <1>1 DEF Linked
  <1>6. \A t \in HttpTargets : InUse(Q2, K2, t) = InUse(Q, K, t)
    <2>1. TAKE t \in HttpTargets
    <2>2. t # NoTarget
      BY ConstantFacts
    <2> QED
      BY <1>1, <2>2 DEF InUse
  <1>7. CountedIn(A, Q2, K2)
    BY <1>6 DEF CountedIn
  <1>8. \A v \in Fds : K2[v] # NoTarget => v \in Q2 \/ M[v] # 0
    BY <1>1 DEF Linked
  <1> QED
    BY <1>2, <1>3, <1>4, <1>5, <1>7, <1>8 DEF Linked

\* Giving a socket to a client keeps maps and counters in step, also when it overwrites
\* an exchange of that client.
LEMMA StoreLinked ==
  ASSUME NEW O, NEW X, NEW M, NEW Q, NEW K, NEW A, NEW V,
         Good(O, X, M, Q, K, A, V),
         NEW c, NEW u, NEW t, NEW X2, NEW M2, NEW Q2, NEW K2, NEW A2, NEW V2,
         Given(O, X, M, Q, K, A, V, c, u, t, X2, M2, Q2, K2, A2, V2)
  PROVE  Linked(O, X2, M2, Q2, K2, V2) /\ CountedIn(A2, Q2, K2)
  <1> DEFINE e == X2[c]
  <1>0. /\ O \in SUBSET Fds /\ X \in StateTables /\ M \in ClientMaps /\ Q \in SUBSET Fds
        /\ K \in SocketTables /\ A \in [Targets -> Nat]
        /\ Linked(O, X, M, Q, K, V) /\ CountedIn(A, Q, K)
        /\ c \in Fds /\ u \in Fds /\ t \in Targets /\ e \in ProxyState /\ e.up = u /\ e.target = t
        /\ X2[c] = e /\ (\A d \in Fds \ {c} : X2[d] = X[d])
        /\ M2[u] = c /\ (\A v \in Fds \ {u} : M2[v] = M[v])
        /\ A2[t] = A[t] + 1 /\ (\A x \in Targets \ {t} : A2[x] = A[x])
        /\ Q2 = Q \ {u} /\ K2[u] = t /\ (\A v \in Fds \ {u} : K2[v] = K[v])
        /\ (u \in Q /\ K[u] = t) \/ (u \notin O /\ K[u] = NoTarget)
        /\ V2 = (V \cup ({X[c].up} \ {0})) \ {u}
    BY DEF Good, Given, OtherwiseSame
  <1> HIDE DEF e
  <1> USE <1>0
  <1>1. X2[c] = e /\ \A d \in Fds \ {c} : X2[d] = X[d]
    OBVIOUS
  <1>2. M2[u] = c /\ \A v \in Fds \ {u} : M2[v] = M[v]
    OBVIOUS
  <1>3. K2[u] = t /\ \A v \in Fds \ {u} : K2[v] = K[v] /\ (v \in Q2 <=> v \in Q)
    OBVIOUS
  <1>4. t # NoTarget /\ u \notin Q2 /\ Q2 \subseteq Q /\ u \notin O
    BY ConstantFacts DEF Linked
  <1>5. M[u] = 0 /\ u \notin InUse(Q, K, t)
    BY <1>4 DEF Linked, InUse
  <1>6. ASSUME NEW d \in Fds, X2[d].up # 0
        PROVE  K2[X2[d].up] = X2[d].target /\ M2[X2[d].up] = d /\ X2[d].up \notin Q2
    <2>1. CASE d = c
      BY <1>1, <1>2, <1>3, <1>4, <2>1
    <2>2. CASE d # c
      <3>1. X2[d] = X[d]
        BY <1>1, <2>2
      <3>2. X[d].up \in Fds
        BY <1>6, <3>1 DEF StateTables, ProxyState
      <3>3. K[X[d].up] = X[d].target /\ M[X[d].up] = d /\ X[d].up \notin Q
        BY <1>6, <3>1 DEF Linked
      <3>4. X[d].up # u
        BY <1>5, <3>3, ConstantFacts
      <3> QED
        BY <1>2, <1>3, <3>1, <3>2, <3>3, <3>4
    <2> QED
      BY <2>1, <2>2
  <1>7. ASSUME NEW v \in Fds, M2[v] # 0
        PROVE  K2[v] # NoTarget /\ (v \notin V2 => X2[M2[v]].up = v)
    <2>1. CASE v = u
      BY <1>1, <1>2, <1>3, <1>4, <2>1
    <2>2. CASE v # u
      <3>1. M2[v] = M[v] /\ M[v] \in Fds /\ K2[v] = K[v]
        BY <1>2, <1>3, <1>7, <2>2 DEF ClientMaps
      <3>2. K[v] # NoTarget /\ (v \notin V => X[M[v]].up = v)
        BY <1>7, <3>1 DEF Linked
      <3>3. v \notin V2 => v \notin V /\ (v = X[c].up => v = 0)
        BY <2>2
      <3>4. v # 0
        BY ConstantFacts
      <3>5. v \notin V2 => M[v] # c
        BY <3>2, <3>3, <3>4
      <3> QED
        BY <1>1, <3>1, <3>2, <3>3, <3>5
    <2> QED
      BY <2>1, <2>2
  <1>8. \A v \in Q2 : K2[v] # NoTarget /\ M2[v] = 0
    BY <1>2, <1>3, <1>4 DEF Linked
  <1>9. \A v \in O : K2[v] = NoTarget
    BY <1>3, <1>4 DEF Linked
  <1>10. CountedIn(A2, Q2, K2)
    <2>1. SUFFICES ASSUME NEW x \in HttpTargets PROVE A2[x] = Cardinality(InUse(Q2, K2, x))
      BY DEF CountedIn
    <2>2. x \in Targets /\ A[x] = Cardinality(InUse(Q, K, x)) /\ A[x] \in Nat
      BY ConstantFacts DEF CountedIn
    <2>3. CASE x = t
      <3>1. InUse(Q2, K2, x) = InUse(Q, K, x) \cup {u}
        BY <1>3, <1>4, <2>3 DEF InUse
      <3>2. u \in Fds \ InUse(Q, K, x) /\ InUse(Q, K, x) \subseteq Fds
        BY <1>5, <2>3 DEF InUse
      <3>3. Cardinality(InUse(Q, K, x) \cup {u}) = Cardinality(InUse(Q, K, x)) + 1
        BY <3>2, OneMore
      <3> QED
        BY <2>2, <2>3, <3>1, <3>3
    <2>4. CASE x # t
      <3>1. InUse(Q2, K2, x) = InUse(Q, K, x)
        <4>1. u \notin InUse(Q2, K2, x) /\ u \notin InUse(Q, K, x)
          BY <1>3, <2>2, <2>4, ConstantFacts DEF InUse
        <4> QED
          BY <1>3, <4>1 DEF InUse
      <3> QED
        BY <2>2, <2>4, <3>1
    <2> QED
      BY <2>3, <2>4
  <1>11. \A v \in Fds : K2[v] # NoTarget => v \in Q2 \/ M2[v] # 0
    BY <1>2, <1>3, ConstantFacts DEF Linked
  <1> QED
    BY <1>6, <1>7, <1>8, <1>9, <1>10, <1>11 DEF Linked

-----------------------------------------------------------------------------
(* The server's record.                                                      *)

\* The types of the server's fields.
LEMMA ServerFields ==
  ASSUME NEW S \in Servers
  PROVE  /\ S.tab \in Tables /\ S.states \in StateTables /\ S.tocli \in ClientMaps
         /\ S.pool \in Pools /\ S.pooled \in SUBSET Fds /\ S.sock \in SocketTables
         /\ S.tab.open \in SUBSET Fds /\ S.pool.active \in [Targets -> Nat]
         /\ S.idle \in [Fds -> 0..(PoolIdle + 1)] /\ S.reg \in [Fds -> SUBSET {"r", "w"}]
         /\ S.estab \in SUBSET Fds /\ S.stale \in SUBSET Fds /\ S.torn \in SUBSET Fds
         /\ S.over \in SUBSET Fds
  <1>1. S.tab \in Tables /\ S.states \in StateTables /\ S.tocli \in ClientMaps
        /\ S.pool \in Pools /\ S.pooled \in SUBSET Fds /\ S.sock \in SocketTables
        /\ S.idle \in [Fds -> 0..(PoolIdle + 1)] /\ S.reg \in [Fds -> SUBSET {"r", "w"}]
        /\ S.estab \in SUBSET Fds /\ S.stale \in SUBSET Fds /\ S.torn \in SUBSET Fds
        /\ S.over \in SUBSET Fds
    BY DEF Servers, StateTables, ClientMaps, SocketTables
  <1>2. S.tab.open \in SUBSET Fds
    BY <1>1 DEF Tables
  <1>3. S.pool.active \in [Targets -> Nat]
    BY <1>1 DEF Pools
  <1> QED
    BY <1>1, <1>2, <1>3

\* The invariant of the server, as a relation between its tables.
LEMMA ServerGood ==
  ASSUME NEW S, ServerInv(S)
  PROVE  Good(S.tab.open, S.states, S.tocli, S.pooled, S.sock, S.pool.active, S.over)
  <1>1. S \in Servers
    BY DEF ServerInv
  <1> QED
    BY <1>1, ServerFields DEF ServerInv, Good

\* A step that changes neither the maps, the pools, the sockets nor the counters,
\* opens no client, and only marks exchanges as connected or otherwise further on.
LEMMA CoreKept ==
  ASSUME NEW S, ServerInv(S), NEW R \in Servers,
         R.tab.open \subseteq S.tab.open, R.tab.open \subseteq Mapped(R.tab),
         R.tocli = S.tocli, R.pooled = S.pooled, R.sock = S.sock, R.over = S.over,
         R.pool.active = S.pool.active,
         \A c \in Fds : /\ R.states[c].up = S.states[c].up
                        /\ R.states[c].target = S.states[c].target
                        /\ R.states[c].age = S.states[c].age
                        /\ S.states[c].connected => R.states[c].connected
  PROVE  Kept(S, R)
  <1>0. \A u \in Fds : S.tocli[u] # 0 => S.tocli[u] \in Fds
    BY ServerFields DEF ServerInv, ClientMaps
  <1>1. Linked(R.tab.open, R.states, R.tocli, R.pooled, R.sock, R.over)
    BY <1>0 DEF ServerInv, Linked
  <1>2. CountedIn(R.pool.active, R.pooled, R.sock)
    BY DEF ServerInv
  <1>3. NoOlder(S.states, R.states)
    BY DEF NoOlder
  <1> QED
    BY <1>1, <1>2, <1>3 DEF Kept, ServerInv

\* A handler that calls two functions that keep the invariant keeps it.
LEMMA KeptTwice ==
  ASSUME NEW S, NEW R, NEW T, Kept(S, R), Kept(R, T)
  PROVE  Kept(S, T)
  BY DEF Kept, NoOlder

\* A handler that returns early keeps the invariant.
LEMMA KeptSame ==
  ASSUME NEW S, ServerInv(S)
  PROVE  Kept(S, S)
  BY DEF Kept, NoOlder

\* epoll_ctl
LEMMA EventSetKept ==
  ASSUME NEW S, ServerInv(S), NEW f \in Fds, NEW ev \in SUBSET {"r", "w"}
  PROVE  /\ Kept(S, event_set(S, f, ev))
         /\ event_set(S, f, ev).tab = S.tab /\ event_set(S, f, ev).states = S.states
  <1> DEFINE R == [S EXCEPT !.reg[f] = ev]
  <1>1. S \in Servers
    BY DEF ServerInv
  <1>2. R \in Servers
    BY <1>1 DEF Servers
  <1>3. /\ R.tab = S.tab /\ R.states = S.states /\ R.tocli = S.tocli
        /\ R.pooled = S.pooled /\ R.sock = S.sock /\ R.over = S.over /\ R.pool = S.pool
    BY <1>1 DEF Servers
  <1> HIDE DEF R
  <1>4. Kept(S, R)
    BY <1>2, <1>3, CoreKept DEF ServerInv
  <1>5. event_set(S, f, ev) = R \/ event_set(S, f, ev) = S
    BY DEF event_set, R
  <1> QED
    BY <1>3, <1>4, <1>5, KeptSame

-----------------------------------------------------------------------------
(* The client table.                                                         *)

\* get_conn leads from a mapped descriptor to a slot.
LEMMA ConnTyped ==
  ASSUME NEW T \in Tables, NEW c \in Fds, get_conn(T, c) # -1
  PROVE  get_conn(T, c) \in Slots /\ Conn(T, c) \in ClientData
  <1>1. get_conn(T, c) \in Slots
    BY DEF Tables, get_conn
  <1> QED
    BY <1>1 DEF Tables, Conn

\* Every update of a slot by the proxy or by the table is a slot.
LEMMA SlotsTyped ==
  ASSUME NEW d \in ClientData
  PROVE  /\ Vacated(d) \in ClientData /\ http_parser_reset(d) \in ClientData
         /\ \A f \in Fds : NewClient(d, f) \in ClientData
         /\ \A b \in BOOLEAN : /\ [d EXCEPT !.proxy_active = b] \in ClientData
                               /\ [d EXCEPT !.is_http = b] \in ClientData
                               /\ [d EXCEPT !.state = "done", !.ka = b] \in ClientData
  <1>1. 0 \in 0..AgeCap /\ "start" \in ParserStates /\ "done" \in ParserStates /\ NoIp \in Peers
    BY TableAssumption DEF ParserStates, Peers
  <1> QED
    BY <1>1 DEF ClientData, Vacated, http_parser_reset, NewClient

\* An update of one slot leaves the map and the open descriptors.
LEMMA WithConnTyped ==
  ASSUME NEW T \in Tables, NEW c \in Fds, get_conn(T, c) # -1, NEW d \in ClientData
  PROVE  /\ WithConn(T, c, d) \in Tables
         /\ WithConn(T, c, d).open = T.open /\ Mapped(WithConn(T, c, d)) = Mapped(T)
  <1>1. get_conn(T, c) \in Slots
    BY ConnTyped
  <1>2. WithConn(T, c, d) \in Tables /\ WithConn(T, c, d).open = T.open
        /\ WithConn(T, c, d).fd_to_index = T.fd_to_index
    BY <1>1 DEF Tables, WithConn
  <1> HIDE DEF WithConn
  <1> QED
    BY <1>2 DEF Mapped, get_conn

\* conn_del removes the descriptors from the map and closes those it finds there.
LEMMA ConnDelTyped ==
  ASSUME NEW T \in Tables, NEW C \in SUBSET Fds
  PROVE  /\ conn_del(T, C) \in Tables
         /\ conn_del(T, C).open = T.open \ (C \cap Mapped(T))
         /\ Mapped(conn_del(T, C)) = Mapped(T) \ C
  <1>1. T.clients \in [Slots -> ClientData] /\ T.ip_conn_counts \in [Ips -> Nat] /\ T.open \subseteq Fds
        /\ T.fd_to_index \in [Fds -> Slots \cup {-1}]
    BY DEF Tables
  <1>2. \A i \in Slots :
          (IF i \in Deleted(T, C) THEN Vacated(T.clients[i]) ELSE T.clients[i]) \in ClientData
    BY <1>1, SlotsTyped
  <1>3. \A p \in Ips : Decremented(T, p, Deleted(T, C)) \in Nat
    <2>1. TAKE p \in Ips
    <2> DEFINE D == {i \in Deleted(T, C) : T.clients[i].peer = p}
    <2>2. D \subseteq Slots
      <3>1. \A f \in Mapped(T) : get_conn(T, f) \in Slots
        BY ConnTyped DEF Mapped
      <3> QED
        BY <3>1 DEF Deleted
    <2>3. IsFiniteSet(Slots)
      BY TableAssumption, FS_Interval DEF Slots
    <2>4. Cardinality(D) \in Nat
      BY <2>2, <2>3, FS_Subset, FS_CardinalityType
    <2> HIDE DEF D
    <2>5. Decremented(T, p, Deleted(T, C)) =
            IF T.ip_conn_counts[p] > Cardinality(D) THEN T.ip_conn_counts[p] - Cardinality(D) ELSE 0
      BY DEF Decremented, D
    <2>6. T.ip_conn_counts[p] \in Nat
      BY <1>1
    <2> QED
      BY <2>4, <2>5, <2>6
  <1>4. \A f \in Fds : (IF f \in C THEN -1 ELSE get_conn(T, f)) \in Slots \cup {-1}
    BY <1>1 DEF get_conn
  <1> DEFINE cl == [i \in Slots |-> IF i \in Deleted(T, C) THEN Vacated(T.clients[i]) ELSE T.clients[i]]
             ix == [f \in Fds |-> IF f \in C THEN -1 ELSE get_conn(T, f)]
             cn == [p \in Ips |-> Decremented(T, p, Deleted(T, C))]
             op == T.open \ (C \cap Mapped(T))
  <1>5. conn_del(T, C) = [clients |-> cl, fd_to_index |-> ix, ip_conn_counts |-> cn, open |-> op]
    BY DEF conn_del
  <1>6. cl \in [Slots -> ClientData] /\ ix \in [Fds -> Slots \cup {-1}] /\ cn \in [Ips -> Nat]
        /\ op \subseteq Fds
    BY <1>1, <1>2, <1>3, <1>4
  <1>7. \A f \in Fds : ix[f] # -1 <=> f \notin C /\ get_conn(T, f) # -1
    OBVIOUS
  <1>8. op = T.open \ (C \cap Mapped(T))
    OBVIOUS
  <1> HIDE DEF cl, ix, cn, op
  <1>9. conn_del(T, C) \in Tables /\ conn_del(T, C).open = op /\ conn_del(T, C).fd_to_index = ix
    BY <1>5, <1>6 DEF Tables
  <1>10. Mapped(conn_del(T, C)) = Mapped(T) \ C
    BY <1>7, <1>9 DEF Mapped, get_conn
  <1> QED
    BY <1>8, <1>9, <1>10

\* An update of a client's slot concerns no exchange.
LEMMA WithClientKept ==
  ASSUME NEW S, ServerInv(S), NEW c \in Fds, get_conn(S.tab, c) # -1, NEW d \in ClientData
  PROVE  /\ Kept(S, WithClient(S, c, d)) /\ WithClient(S, c, d).states = S.states
         /\ Mapped(WithClient(S, c, d).tab) = Mapped(S.tab)
         /\ WithClient(S, c, d).tab.open = S.tab.open
         /\ WithClient(S, c, d).pool = S.pool /\ WithClient(S, c, d).pooled = S.pooled
         /\ WithClient(S, c, d).sock = S.sock /\ WithClient(S, c, d).idle = S.idle
  <1> DEFINE T == WithConn(S.tab, c, d)
             R == [S EXCEPT !.tab = T]
  <1>1. S \in Servers /\ S.tab \in Tables
    BY ServerFields DEF ServerInv
  <1>2. T \in Tables /\ T.open = S.tab.open /\ Mapped(T) = Mapped(S.tab)
    BY <1>1, WithConnTyped
  <1>3. WithClient(S, c, d) = R
    BY DEF WithClient
  <1> HIDE DEF T
  <1>4. R \in Servers
    BY <1>1, <1>2 DEF Servers
  <1>5. /\ R.tab = T /\ R.states = S.states /\ R.tocli = S.tocli
        /\ R.pooled = S.pooled /\ R.sock = S.sock /\ R.over = S.over /\ R.pool = S.pool /\ R.idle = S.idle
    BY <1>1 DEF Servers
  <1> HIDE DEF R
  <1>6. Kept(S, R)
    BY <1>2, <1>4, <1>5, CoreKept DEF ServerInv
  <1> QED
    BY <1>2, <1>3, <1>5, <1>6

\* Ending client connections leaves their exchanges as they are.
LEMMA DropClientsKept ==
  ASSUME NEW S, ServerInv(S), NEW C \in SUBSET Fds
  PROVE  Kept(S, DropClients(S, C)) /\ DropClients(S, C).states = S.states
         /\ DropClients(S, C).pooled = S.pooled
  <1> DEFINE T == conn_del(S.tab, C)
             g == [f \in Fds |-> IF f \in C THEN {} ELSE S.reg[f]]
             st == S.stale \cup Reported(S, C)
             R == [S EXCEPT !.tab = T, !.reg = g, !.stale = st]
  <1>1. S \in Servers /\ S.tab \in Tables /\ S.reg \in [Fds -> SUBSET {"r", "w"}] /\ S.stale \subseteq Fds
    BY ServerFields DEF ServerInv
  <1>2. T \in Tables /\ T.open = S.tab.open \ (C \cap Mapped(S.tab)) /\ Mapped(T) = Mapped(S.tab) \ C
    BY <1>1, ConnDelTyped
  <1>3. g \in [Fds -> SUBSET {"r", "w"}] /\ st \subseteq Fds
    BY <1>1 DEF Reported
  <1>4. DropClients(S, C) = R
    BY DEF DropClients
  <1> HIDE DEF T, g, st
  <1>5. R \in Servers
    BY <1>1, <1>2, <1>3 DEF Servers
  <1>6. /\ R.tab = T /\ R.states = S.states /\ R.tocli = S.tocli
        /\ R.pooled = S.pooled /\ R.sock = S.sock /\ R.over = S.over /\ R.pool = S.pool
    BY <1>1 DEF Servers
  <1> HIDE DEF R
  <1>7. T.open \subseteq S.tab.open /\ T.open \subseteq Mapped(T)
    BY <1>2 DEF ServerInv
  <1>8. Kept(S, R)
    BY <1>5, <1>6, <1>7, CoreKept
  <1> QED
    BY <1>4, <1>6, <1>8

-----------------------------------------------------------------------------
(* Upstream sockets.                                                         *)

\* close of upstream sockets: they belong to no target and are not pooled.
LEMMA CloseSocketsTyped ==
  ASSUME NEW S \in Servers, NEW U \in SUBSET Fds, NEW R, R = CloseSockets(S, U)
  PROVE  /\ R \in Servers /\ R.tab = S.tab /\ R.states = S.states /\ R.tocli = S.tocli
         /\ R.pool = S.pool /\ R.pooled = S.pooled \ U /\ R.over = S.over
         /\ R.sock = [u \in Fds |-> IF u \in U THEN NoTarget ELSE S.sock[u]]
  <1> DEFINE k == [u \in Fds |-> IF u \in U THEN NoTarget ELSE S.sock[u]]
             g == [u \in Fds |-> IF u \in U THEN {} ELSE S.reg[u]]
             i == [u \in Fds |-> IF u \in U THEN 0 ELSE S.idle[u]]
             st == S.stale \cup Reported(S, U)
             q == S.pooled \ U
             es == S.estab \ U
             tn == S.torn \ U
  <1>1. R = [S EXCEPT !.sock = k, !.reg = g, !.idle = i, !.pooled = q,
                      !.estab = es, !.torn = tn, !.stale = st]
    BY DEF CloseSockets
  <1>2. /\ S.sock \in SocketTables /\ S.reg \in [Fds -> SUBSET {"r", "w"}]
        /\ S.idle \in [Fds -> 0..(PoolIdle + 1)] /\ S.stale \in SUBSET Fds
        /\ S.pooled \in SUBSET Fds /\ S.estab \in SUBSET Fds /\ S.torn \in SUBSET Fds
    BY ServerFields
  <1>3. 0 \in 0..(PoolIdle + 1)
    BY ConstantFacts
  <1>4. k \in SocketTables /\ g \in [Fds -> SUBSET {"r", "w"}] /\ i \in [Fds -> 0..(PoolIdle + 1)]
        /\ st \in SUBSET Fds /\ q \in SUBSET Fds /\ es \in SUBSET Fds /\ tn \in SUBSET Fds
    BY <1>2, <1>3 DEF SocketTables, Reported
  <1> HIDE DEF k, g, i, st, q, es, tn
  <1>5. R \in Servers
    <2> DEFINE A == [S EXCEPT !.sock = k, !.reg = g, !.idle = i]
               B == [A EXCEPT !.pooled = q, !.estab = es]
    <2>1. A \in Servers
      BY <1>4 DEF Servers, SocketTables
    <2>2. R = [B EXCEPT !.torn = tn, !.stale = st]
      BY <1>1 DEF Servers
    <2> HIDE DEF A
    <2>3. B \in Servers
      BY <1>4, <2>1 DEF Servers
    <2> HIDE DEF B
    <2> QED
      BY <1>4, <2>2, <2>3 DEF Servers
  <1>6. /\ R.tab = S.tab /\ R.states = S.states /\ R.tocli = S.tocli
        /\ R.pool = S.pool /\ R.pooled = q /\ R.sock = k /\ R.over = S.over
    BY <1>1 DEF Servers
  <1> QED
    BY <1>5, <1>6 DEF k, q

\* Idle sockets are closed: dead ones by proxy_handler, old ones by the sweep.
LEMMA CloseIdleKept ==
  ASSUME NEW S, ServerInv(S), NEW U \in SUBSET S.pooled, NEW R, R = CloseSockets(S, U)
  PROVE  /\ Kept(S, R) /\ R.states = S.states /\ R.tab = S.tab /\ R.pool = S.pool
  <1>1. S \in Servers /\ U \in SUBSET Fds
    BY ServerFields DEF ServerInv
  <1>2. /\ R \in Servers /\ R.tab = S.tab /\ R.states = S.states /\ R.tocli = S.tocli
        /\ R.pool = S.pool /\ R.pooled = S.pooled \ U /\ R.over = S.over
        /\ R.sock = [u \in Fds |-> IF u \in U THEN NoTarget ELSE S.sock[u]]
    BY <1>1, CloseSocketsTyped
  <1>3. Linked(R.tab.open, R.states, R.tocli, R.pooled, R.sock, R.over)
        /\ CountedIn(R.pool.active, R.pooled, R.sock)
    <2>1. Good(S.tab.open, S.states, S.tocli, S.pooled, S.sock, S.pool.active, S.over)
      BY <1>1, ServerGood
    <2>2. IdleClosed(S.pooled, S.sock, U, R.pooled, R.sock)
      BY <1>1, <1>2 DEF IdleClosed
    <2>3. /\ Linked(S.tab.open, S.states, S.tocli, R.pooled, R.sock, S.over)
          /\ CountedIn(S.pool.active, R.pooled, R.sock)
      BY <2>1, <2>2, CloseIdleLinked
    <2> QED
      BY <1>2, <2>3
  <1> QED
    BY <1>2, <1>3 DEF Kept, ServerInv, NoOlder
-----------------------------------------------------------------------------
(* The end of an exchange.                                                   *)

\* What the pool's functions do to active_connections.
LEMMA PoolCounts ==
  ASSUME NEW P \in Pools
  PROVE  /\ \A m \in Modes : AfterResolve(P, m).active = P.active
         /\ \A t \in Targets :
              /\ upstream_pool_mark_down(P, t).active = P.active
              /\ upstream_pool_inc_conn(P, t).active[t] = P.active[t] + 1
              /\ OtherwiseSame(Targets, t, P.active, upstream_pool_inc_conn(P, t).active)
              /\ upstream_pool_dec_conn(P, t).active[t] =
                   IF P.active[t] > 0 THEN P.active[t] - 1 ELSE P.active[t]
              /\ OtherwiseSame(Targets, t, P.active, upstream_pool_dec_conn(P, t).active)
         /\ PoolSecond(P).active = P.active
  BY DEF Pools, AfterResolve, upstream_pool_mark_down, upstream_pool_inc_conn,
         upstream_pool_dec_conn, PoolSecond, OtherwiseSame

\* The upstream half of proxy_cleanup, whether the socket is closed or pooled.
LEMMA UpstreamReleasedKept ==
  ASSUME NEW S, ServerInv(S), NEW c \in Fds, S.states[c].up # 0,
         NEW R, R = UpstreamReleased(S, c)
  PROVE  Kept(S, R) /\ R.tab = S.tab /\ R.states[c] = NoState
         /\ OtherwiseSame(Fds, c, S.states, R.states)
  <1> DEFINE e == S.states[c]
             m == [S.tocli EXCEPT ![e.up] = 0]
             x == [S.states EXCEPT ![c] = NoState]
             p == upstream_pool_dec_conn(S.pool, e.target)
             A == [S EXCEPT !.tocli = m, !.states = x, !.pool = p]
             B == [A EXCEPT !.reg[e.up] = {}]
             T == [B EXCEPT !.pooled = @ \cup {e.up}, !.idle[e.up] = 0, !.torn = @ \cup {e.up}]
             C == CloseSockets(B, {e.up})
             D == CloseSockets(A, {e.up})
  <1>1. S \in Servers /\ S.states \in StateTables /\ S.tocli \in ClientMaps /\ S.pool \in Pools
    BY ServerFields DEF ServerInv
  <1>2. e \in ProxyState /\ e.up \in Fds /\ e.target \in Targets
    BY <1>1 DEF StateTables, ProxyState
  <1>3. R = T \/ R = C \/ R = D
    BY DEF UpstreamReleased, keepalive_pool_put
  <1>4. m \in ClientMaps /\ x \in StateTables /\ p \in Pools
    <2>1. NoState \in ProxyState
      BY ConstantFacts DEF NoState, ProxyState, Responses
    <2>2. p \in Pools
      BY <1>1, <1>2, PoolStepsTyped
    <2> QED
      BY <1>1, <1>2, <2>1, <2>2 DEF ClientMaps, StateTables
  <1>5. /\ m[e.up] = 0 /\ OtherwiseSame(Fds, e.up, S.tocli, m)
        /\ x[c] = NoState /\ OtherwiseSame(Fds, c, S.states, x)
    BY <1>1, <1>2 DEF OtherwiseSame, ClientMaps, StateTables
  <1>6. /\ p.active[e.target] = (IF S.pool.active[e.target] > 0
                                 THEN S.pool.active[e.target] - 1 ELSE S.pool.active[e.target])
        /\ OtherwiseSame(Targets, e.target, S.pool.active, p.active)
    BY <1>1, <1>2, PoolCounts
  <1> HIDE DEF e, m, x, p
  <1>7. A \in Servers
    BY <1>1, <1>4 DEF Servers, ClientMaps, StateTables
  <1>8. /\ A.tab = S.tab /\ A.states = x /\ A.tocli = m /\ A.pool = p
        /\ A.pooled = S.pooled /\ A.sock = S.sock /\ A.over = S.over
    BY <1>1 DEF Servers
  <1> HIDE DEF A
  <1>9. B \in Servers
    BY <1>2, <1>7 DEF Servers
  <1>10. /\ B.tab = S.tab /\ B.states = x /\ B.tocli = m /\ B.pool = p
         /\ B.pooled = S.pooled /\ B.sock = S.sock /\ B.over = S.over
    BY <1>7, <1>8 DEF Servers
  <1> HIDE DEF B
  <1>11. T \in Servers
    <2>1. 0 \in 0..(PoolIdle + 1)
      BY ConstantFacts
    <2> QED
      BY <1>2, <1>9, <2>1 DEF Servers
  <1>12. /\ T.tab = S.tab /\ T.states = x /\ T.tocli = m /\ T.pool = p
         /\ T.pooled = S.pooled \cup {e.up} /\ T.sock = S.sock /\ T.over = S.over
    BY <1>9, <1>10 DEF Servers
  <1>13. C \in Servers /\ C.tab = S.tab /\ C.states = x /\ C.tocli = m /\ C.pool = p
         /\ C.pooled = S.pooled \ {e.up} /\ C.over = S.over
         /\ C.sock = [u \in Fds |-> IF u \in {e.up} THEN NoTarget ELSE S.sock[u]]
    BY <1>2, <1>9, <1>10, CloseSocketsTyped
  <1>14. D \in Servers /\ D.tab = S.tab /\ D.states = x /\ D.tocli = m /\ D.pool = p
         /\ D.pooled = S.pooled \ {e.up} /\ D.over = S.over
         /\ D.sock = [u \in Fds |-> IF u \in {e.up} THEN NoTarget ELSE S.sock[u]]
    BY <1>2, <1>7, <1>8, CloseSocketsTyped
  <1> HIDE DEF C, D, T
  <1>15. R \in Servers /\ R.tab = S.tab /\ R.states = x /\ R.tocli = m /\ R.pool = p
         /\ R.over = S.over
    BY <1>3, <1>11, <1>12, <1>13, <1>14
  <1>16. /\ R.pooled \in SUBSET Fds /\ OtherwiseSame(Fds, e.up, S.sock, R.sock)
         /\ R.pooled \ {e.up} = S.pooled \ {e.up}
         /\ \/ e.up \in R.pooled /\ R.sock[e.up] = S.sock[e.up]
            \/ e.up \notin R.pooled /\ R.sock[e.up] = NoTarget
    <2>1. S.pooled \in SUBSET Fds
      BY <1>1, ServerFields
    <2>2. CASE R = T
      BY <1>2, <1>12, <2>1, <2>2 DEF OtherwiseSame
    <2>3. CASE R = C
      BY <1>2, <1>13, <2>1, <2>3 DEF OtherwiseSame
    <2>4. CASE R = D
      BY <1>2, <1>14, <2>1, <2>4 DEF OtherwiseSame
    <2> QED
      BY <1>3, <2>2, <2>3, <2>4
  <1>17. Released(S.states, S.tocli, S.pooled, S.sock, S.pool.active, c, e.up, e.target,
                  R.states, R.tocli, R.pooled, R.sock, R.pool.active)
    <2>1. S.states[c].up # 0 /\ e.up = S.states[c].up /\ e.target = S.states[c].target
      BY DEF e
    <2>2. R.states[c] = NoState /\ OtherwiseSame(Fds, c, S.states, R.states)
      BY <1>5, <1>15
    <2>3. R.tocli[e.up] = 0 /\ OtherwiseSame(Fds, e.up, S.tocli, R.tocli)
      BY <1>5, <1>15
    <2>4. /\ R.pool.active[e.target] = (IF S.pool.active[e.target] > 0
                                        THEN S.pool.active[e.target] - 1 ELSE S.pool.active[e.target])
          /\ OtherwiseSame(Targets, e.target, S.pool.active, R.pool.active)
      BY <1>6, <1>15
    <2> QED
      BY <2>1, <2>2, <2>3, <2>4, <1>16 DEF Released
  <1>18. Good(S.tab.open, S.states, S.tocli, S.pooled, S.sock, S.pool.active, S.over)
    BY ServerGood
  <1>19. /\ Linked(S.tab.open, R.states, R.tocli, R.pooled, R.sock, S.over)
         /\ CountedIn(R.pool.active, R.pooled, R.sock)
    BY <1>17, <1>18, ReleaseLinked
  <1>20. ServerInv(R)
    BY <1>15, <1>19 DEF ServerInv
  <1>21. NoOlder(S.states, R.states)
    BY <1>5, <1>15 DEF NoOlder, OtherwiseSame, NoState
  <1> QED
    BY <1>5, <1>15, <1>20, <1>21 DEF Kept

\* The client half, for whatever connection has the number.
LEMMA ClientReleasedKept ==
  ASSUME NEW S, ServerInv(S), NEW c \in Fds, NEW b,
         NEW R, R = ClientReleased(S, c, b)
  PROVE  Kept(S, R) /\ R.states = S.states
  <1> DEFINE d == [Conn(S.tab, c) EXCEPT !.proxy_active = FALSE]
             W == WithClient(S, c, http_parser_reset(d))
             V == WithClient(S, c, d)
  <1>1. CASE get_conn(S.tab, c) = -1
    BY <1>1, KeptSame DEF ClientReleased
  <1>2. CASE get_conn(S.tab, c) # -1
    <2>1. S.tab \in Tables
      BY ServerFields DEF ServerInv
    <2>2. d \in ClientData /\ http_parser_reset(d) \in ClientData
      BY <1>2, <2>1, ConnTyped, SlotsTyped
    <2>3. R = event_set(W, c, {"r"}) \/ R = DropClients(V, {c})
      BY <1>2 DEF ClientReleased, DropClient
    <2> HIDE DEF d
    <2>4. Kept(S, W) /\ W.states = S.states /\ Kept(S, V) /\ V.states = S.states
      BY <1>2, <2>2, WithClientKept
    <2> HIDE DEF W, V
    <2>5. ServerInv(W) /\ ServerInv(V)
      BY <2>4 DEF Kept
    <2>6. Kept(W, event_set(W, c, {"r"})) /\ event_set(W, c, {"r"}).states = W.states
      BY <2>5, EventSetKept
    <2>7. Kept(V, DropClients(V, {c})) /\ DropClients(V, {c}).states = V.states
      BY <2>5, DropClientsKept
    <2> QED
      BY <2>3, <2>4, <2>6, <2>7, KeptTwice
  <1> QED
    BY <1>1, <1>2

\* proxy_cleanup keeps the invariant and ends the exchange of c only.
LEMMA CleanupKept ==
  ASSUME NEW S, ServerInv(S), NEW c \in Fds, S.states[c].up # 0,
         NEW R, R = proxy_cleanup(S, c)
  PROVE  Kept(S, R) /\ R.states[c] = NoState /\ OtherwiseSame(Fds, c, S.states, R.states)
  <1> DEFINE U == UpstreamReleased(S, c)
  <1>1. Kept(S, U) /\ U.states[c] = NoState /\ OtherwiseSame(Fds, c, S.states, U.states)
    BY UpstreamReleasedKept
  <1>2. R = ClientReleased(U, c, S.states[c].resp = "poolable")
    BY DEF proxy_cleanup
  <1> HIDE DEF U
  <1>3. ServerInv(U)
    BY <1>1 DEF Kept
  <1>4. Kept(U, R) /\ R.states = U.states
    BY <1>2, <1>3, ClientReleasedKept
  <1> QED
    BY <1>1, <1>4, KeptTwice

\* A connect that fails or times out (mark_down and proxy_cleanup) keeps the invariant and ends
\* the exchange of c only.
LEMMA ConnectFailedKept ==
  ASSUME NEW S, ServerInv(S), NEW c \in Fds, S.states[c].up # 0,
         NEW R, R = ConnectFailed(S, c)
  PROVE  Kept(S, R) /\ R.states[c] = NoState /\ OtherwiseSame(Fds, c, S.states, R.states)
  <1> DEFINE p == upstream_pool_mark_down(S.pool, S.states[c].target)
             A == [S EXCEPT !.pool = p]
  <1>1. S \in Servers /\ S.pool \in Pools /\ S.states[c].target \in Targets
    BY ServerFields DEF ServerInv, StateTables, ProxyState
  <1>2. p \in Pools /\ p.active = S.pool.active
    BY <1>1, PoolStepsTyped, PoolCounts
  <1>3. R = proxy_cleanup(A, c)
    BY DEF ConnectFailed
  <1> HIDE DEF p
  <1>4. A \in Servers /\ A.tab = S.tab /\ A.states = S.states /\ A.tocli = S.tocli
        /\ A.pooled = S.pooled /\ A.sock = S.sock /\ A.over = S.over /\ A.pool = p
    BY <1>1, <1>2 DEF Servers
  <1> HIDE DEF A
  <1>5. Kept(S, A)
    BY <1>2, <1>4, CoreKept DEF ServerInv
  <1>6. ServerInv(A) /\ A.states[c].up # 0
    BY <1>4, <1>5 DEF Kept
  <1>7. Kept(A, R) /\ R.states[c] = NoState /\ OtherwiseSame(Fds, c, A.states, R.states)
    BY <1>3, <1>6, CleanupKept
  <1> QED
    BY <1>4, <1>5, <1>7, KeptTwice
-----------------------------------------------------------------------------
(* proxy_handler.                                                            *)

\* A request that is answered with an error before it has an exchange.
LEMMA RefusedKept ==
  ASSUME NEW S, ServerInv(S), NEW c \in Fds, get_conn(S.tab, c) # -1,
         NEW R, R = Refused(S, c)
  PROVE  Kept(S, R)
  <1>1. S.tab \in Tables
    BY ServerFields DEF ServerInv
  <1>2. Conn(S.tab, c) \in ClientData
    BY <1>1, ConnTyped
  <1>3. Conn(S.tab, c).proxy_active \in BOOLEAN /\ Conn(S.tab, c).ka \in BOOLEAN
        /\ http_parser_reset(Conn(S.tab, c)) \in ClientData
    BY <1>2, SlotsTyped DEF ClientData
  <1>4. \/ R = S \/ R = WithClient(S, c, http_parser_reset(Conn(S.tab, c)))
        \/ R = DropClients(S, {c})
    BY <1>3 DEF Refused, DropClient
  <1> QED
    BY <1>3, <1>4, KeptSame, WithClientKept, DropClientsKept

\* The lowest free descriptor is free: no client and no upstream socket has it.
LEMMA LowestFreeIs ==
  ASSUME NEW S, FreeFds(S) # {}
  PROVE  LowestFree(S) \in Fds /\ LowestFree(S) \notin OpenFds(S)
  <1>1. FreeFds(S) \subseteq Nat
    BY DEF FreeFds, Fds
  <1>2. \E f \in FreeFds(S) : \A g \in FreeFds(S) : f <= g
    BY <1>1, LeastNat
  <1>3. LowestFree(S) \in FreeFds(S)
    BY <1>2 DEF LowestFree
  <1> QED
    BY <1>3 DEF FreeFds

\* What proxy_handler stores for a new exchange.
LEMMA StoredIs ==
  ASSUME NEW S \in Servers, NEW c \in Fds, get_conn(S.tab, c) # -1,
         NEW u \in Fds, NEW t \in Targets, NEW k \in BOOLEAN, NEW b \in BOOLEAN,
         NEW R, R = Stored(S, c, u, t, k, b)
  PROVE  /\ R \in Servers /\ R.tab.open = S.tab.open /\ Mapped(R.tab) = Mapped(S.tab)
         /\ R.pool = S.pool /\ R.pooled = S.pooled /\ R.sock = S.sock
         /\ R.over = (S.over \cup ({S.states[c].up} \ {0})) \ {u}
         /\ R.states[c] \in ProxyState /\ R.states[c].up = u /\ R.states[c].target = t
         /\ R.states[c].age = 0 /\ OtherwiseSame(Fds, c, S.states, R.states)
         /\ R.tocli[u] = c /\ OtherwiseSame(Fds, u, S.tocli, R.tocli)
  <1> DEFINE e == [up |-> u, target |-> t, keepalive |-> k, connected |-> b,
                   age |-> 0, pending |-> TRUE, buffered |-> FALSE, resp |-> "none"]
             d == [Conn(S.tab, c) EXCEPT !.proxy_active = TRUE]
             T == WithConn(S.tab, c, d)
             x == [S.states EXCEPT ![c] = e]
             m == [S.tocli EXCEPT ![u] = c]
             g == [S.reg EXCEPT ![u] = IF @ = {} THEN {"r", "w"} ELSE @]
             o == (S.over \cup ({S.states[c].up} \ {0})) \ {u}
  <1>1. S.tab \in Tables /\ S.states \in StateTables /\ S.tocli \in ClientMaps
        /\ S.reg \in [Fds -> SUBSET {"r", "w"}] /\ S.over \in SUBSET Fds
    BY ServerFields
  <1>2. d \in ClientData
    BY <1>1, ConnTyped, SlotsTyped
  <1> HIDE DEF d
  <1>3. T \in Tables /\ T.open = S.tab.open /\ Mapped(T) = Mapped(S.tab)
    BY <1>1, <1>2, WithConnTyped
  <1>4. e \in ProxyState /\ e.up = u /\ e.target = t /\ e.age = 0
    BY ConstantFacts DEF ProxyState, Responses
  <1> HIDE DEF e
  <1>5. x \in StateTables /\ m \in ClientMaps /\ g \in [Fds -> SUBSET {"r", "w"}]
        /\ o \in SUBSET Fds
    <2>1. S.states[c].up \in {0} \cup Fds
      BY <1>1 DEF StateTables, ProxyState
    <2> QED
      BY <1>1, <1>4, <2>1 DEF StateTables, ClientMaps
  <1>6. x[c] = e /\ OtherwiseSame(Fds, c, S.states, x) /\ m[u] = c /\ OtherwiseSame(Fds, u, S.tocli, m)
    BY <1>1 DEF StateTables, ClientMaps, OtherwiseSame
  <1>7. R = [S EXCEPT !.tab = T, !.states = x, !.tocli = m, !.reg = g, !.over = o]
    BY DEF Stored, WithClient, e, d, Servers
  <1>8. o = (S.over \cup ({S.states[c].up} \ {0})) \ {u}
    OBVIOUS
  <1> HIDE DEF T, x, m, g, o
  <1>9. R \in Servers
    BY <1>3, <1>5, <1>7 DEF Servers, StateTables, ClientMaps
  <1>10. /\ R.tab = T /\ R.states = x /\ R.tocli = m /\ R.over = o
         /\ R.pool = S.pool /\ R.pooled = S.pooled /\ R.sock = S.sock
    BY <1>7 DEF Servers
  <1> QED
    BY <1>3, <1>4, <1>6, <1>8, <1>9, <1>10

\* The exchange is stored for a socket that the target counts from now on; B is
\* the server when it is stored, S what it was before the target was counted.
LEMMA StoredKept ==
  ASSUME NEW S, ServerInv(S), NEW B \in Servers, NEW c \in Fds, get_conn(S.tab, c) # -1,
         NEW u \in Fds, NEW t \in Targets, NEW k \in BOOLEAN, NEW b \in BOOLEAN,
         B.tab = S.tab, B.states = S.states, B.tocli = S.tocli, B.over = S.over,
         B.pool.active[t] = S.pool.active[t] + 1,
         OtherwiseSame(Targets, t, S.pool.active, B.pool.active),
         B.pooled = S.pooled \ {u}, B.sock[u] = t, OtherwiseSame(Fds, u, S.sock, B.sock),
         \/ u \in S.pooled /\ S.sock[u] = t
         \/ u \notin S.tab.open /\ S.sock[u] = NoTarget,
         NEW R, R = Stored(B, c, u, t, k, b)
  PROVE  Kept(S, R)
  <1>1. /\ R \in Servers /\ R.tab.open = S.tab.open /\ Mapped(R.tab) = Mapped(S.tab)
        /\ R.pool = B.pool /\ R.pooled = B.pooled /\ R.sock = B.sock
        /\ R.over = (S.over \cup ({S.states[c].up} \ {0})) \ {u}
        /\ R.states[c] \in ProxyState /\ R.states[c].up = u /\ R.states[c].target = t
        /\ R.states[c].age = 0 /\ OtherwiseSame(Fds, c, S.states, R.states)
        /\ R.tocli[u] = c /\ OtherwiseSame(Fds, u, S.tocli, R.tocli)
    BY StoredIs
  <1>2. Given(S.tab.open, S.states, S.tocli, S.pooled, S.sock, S.pool.active, S.over, c, u, t,
              R.states, R.tocli, R.pooled, R.sock, R.pool.active, R.over)
    BY <1>1 DEF Given
  <1>3. Good(S.tab.open, S.states, S.tocli, S.pooled, S.sock, S.pool.active, S.over)
    BY ServerGood
  <1>4. /\ Linked(S.tab.open, R.states, R.tocli, R.pooled, R.sock, R.over)
        /\ CountedIn(R.pool.active, R.pooled, R.sock)
    BY <1>2, <1>3, StoreLinked
  <1>5. ServerInv(R)
    BY <1>1, <1>4 DEF ServerInv
  <1>6. NoOlder(S.states, R.states)
    BY <1>1 DEF NoOlder, OtherwiseSame
  <1> QED
    BY <1>5, <1>6 DEF Kept
\* proxy_handler counts the target before it knows whether it gets a socket, and
\* takes the count back when it does not.
LEMMA HandlerKept ==
  ASSUME NEW S, ServerInv(S), NEW c \in Fds, get_conn(S.tab, c) # -1,
         NEW start \in Targets, NEW k \in BOOLEAN, NEW alive \in BOOLEAN, NEW link \in BOOLEAN,
         NEW v, v # 0 => v \in PooledFor(S, upstream_pool_resolve(S.pool, Mode, start)),
         NEW R, R = proxy_handler(S, c, start, k, v, alive, link)
  PROVE  Kept(S, R)
  <1> DEFINE t == upstream_pool_resolve(S.pool, Mode, start)
             p == AfterResolve(S.pool, Mode)
             P == [S EXCEPT !.pool = p]
             i == upstream_pool_inc_conn(p, t)
             I == [S EXCEPT !.pool = i]
             D == IF v # 0 THEN CloseSockets(I, {v}) ELSE I
             E == IF v # 0 THEN CloseSockets(S, {v}) ELSE S
             j == upstream_pool_dec_conn(i, t)
             J == [D EXCEPT !.pool = j]
  <1>1. S \in Servers /\ S.pool \in Pools /\ S.pool.active \in [Targets -> Nat] /\ Mode \in Modes
        /\ S.pooled \in SUBSET Fds
    BY ServerFields, ExchangeAssumption DEF ServerInv
  <1>2. t \in Targets \cup {NoTarget}
    BY <1>1, ResolveIs
  <1>3. p \in Pools /\ p.active = S.pool.active
    BY <1>1, PoolStepsTyped, PoolCounts
  <1>4. v # 0 => v \in S.pooled /\ v \in Fds /\ S.sock[v] = t
    BY <1>1 DEF PooledFor
  <1>5. R = CASE t = NoTarget                    -> Refused(P, c)
              [] t # NoTarget /\ t \notin HttpTargets -> Refused(I, c)
              [] t \in HttpTargets /\ v # 0 /\ alive  -> Reused(I, c, v, t)
              [] t \in HttpTargets /\ ~(v # 0 /\ alive) /\ link /\ FreeFds(D) # {} ->
                   Connecting(D, c, t, k)
              [] OTHER -> Refused(J, c)
    <2> DEFINE I0 == [P EXCEPT !.pool = upstream_pool_inc_conn(@, t)]
               D0 == IF v # 0 THEN CloseSockets(I0, {v}) ELSE I0
               J0 == [D0 EXCEPT !.pool = upstream_pool_dec_conn(@, t)]
    <2>0. R = CASE t = NoTarget                    -> Refused(P, c)
                [] t # NoTarget /\ t \notin HttpTargets -> Refused(I0, c)
                [] t \in HttpTargets /\ v # 0 /\ alive  -> Reused(I0, c, v, t)
                [] t \in HttpTargets /\ ~(v # 0 /\ alive) /\ link /\ FreeFds(D0) # {} ->
                     Connecting(D0, c, t, k)
                [] OTHER -> Refused(J0, c)
      BY DEF proxy_handler
    <2>1. I0 = I
      BY <1>1 DEF Servers
    <2>2. D.pool = i
      <3>1. I.pool = i
        BY <1>1 DEF Servers
      <3>2. CloseSockets(I, {v}).pool = I.pool
        BY DEF CloseSockets
      <3> QED
        BY <3>1, <3>2
    <2> HIDE DEF t, i, I0, I
    <2>3. D0 = D
      BY <2>1
    <2> HIDE DEF D0, D
    <2>4. J0 = J
      BY <2>2, <2>3
    <2> HIDE DEF P, J0, J
    <2> QED
      BY <2>0, <2>1, <2>3, <2>4
  <1> HIDE DEF t, p
  <1>6. CASE t = NoTarget
    <2>1. P \in Servers
      BY <1>1, <1>3 DEF Servers
    <2>2. P.tab = S.tab /\ P.states = S.states /\ P.tocli = S.tocli /\ P.pooled = S.pooled
          /\ P.sock = S.sock /\ P.over = S.over /\ P.pool = p
      BY <1>1 DEF Servers
    <2> HIDE DEF P
    <2>3. Kept(S, P)
      BY <1>3, <2>1, <2>2, CoreKept DEF ServerInv
    <2>4. R = Refused(P, c)
      BY <1>5, <1>6, ConstantFacts
    <2>5. Kept(P, R)
      <3>1. ServerInv(P) /\ get_conn(P.tab, c) # -1
        BY <2>2, <2>3 DEF Kept
      <3> QED
        BY <2>4, <3>1, RefusedKept
    <2> QED
      BY <2>3, <2>5, KeptTwice
  <1>7. CASE t \in Targets
    <2>1. i \in Pools /\ i.active[t] = S.pool.active[t] + 1
          /\ OtherwiseSame(Targets, t, S.pool.active, i.active)
      <3>1. i \in Pools
        BY <1>3, <1>7, PoolStepsTyped
      <3>2. i.active[t] = p.active[t] + 1 /\ OtherwiseSame(Targets, t, p.active, i.active)
        BY <1>3, <1>7, PoolCounts
      <3> QED
        BY <1>3, <3>1, <3>2
    <2>2. j \in Pools /\ j.active = S.pool.active
      <3>1. j \in Pools /\ j.active[t] = (IF i.active[t] > 0 THEN i.active[t] - 1 ELSE i.active[t])
            /\ OtherwiseSame(Targets, t, i.active, j.active)
        BY <1>7, <2>1, PoolStepsTyped, PoolCounts
      <3> HIDE DEF i, j
      <3>2. j.active \in [Targets -> Nat]
        BY <3>1 DEF Pools
      <3>3. S.pool.active[t] \in Nat
        BY <1>1, <1>7
      <3>4. j.active[t] = S.pool.active[t]
        BY <2>1, <3>1, <3>3
      <3>5. \A x \in Targets : j.active[x] = S.pool.active[x]
        BY <2>1, <3>1, <3>4 DEF OtherwiseSame
      <3> QED
        BY <1>1, <3>1, <3>2, <3>5
    <2> HIDE DEF i, j
    <2>3. I \in Servers
      BY <1>1, <2>1 DEF Servers
    <2>4. I.tab = S.tab /\ I.states = S.states /\ I.tocli = S.tocli /\ I.pooled = S.pooled
          /\ I.sock = S.sock /\ I.over = S.over /\ I.pool = i
      BY <1>1 DEF Servers
    <2> HIDE DEF I
    <2>5. /\ Kept(S, E) /\ E.states = S.states /\ E.tab = S.tab /\ E.pool = S.pool
          /\ E.tocli = S.tocli
      <3>1. CASE v = 0
        BY <3>1, KeptSame
      <3>2. CASE v # 0
        <4>1. E = CloseSockets(S, {v}) /\ {v} \in SUBSET S.pooled /\ {v} \in SUBSET Fds
          BY <1>4, <3>2
        <4> HIDE DEF E
        <4>2. Kept(S, E) /\ E.states = S.states /\ E.tab = S.tab /\ E.pool = S.pool
          BY <4>1, CloseIdleKept
        <4>3. E.tocli = S.tocli
          BY <1>1, <4>1 DEF CloseSockets, Servers
        <4> QED
          BY <4>2, <4>3
      <3> QED
        BY <3>1, <3>2
    <2>6. /\ D \in Servers /\ D.tab = E.tab /\ D.states = E.states /\ D.tocli = E.tocli
          /\ D.pooled = E.pooled /\ D.sock = E.sock /\ D.over = E.over /\ D.pool = i
      <3>1. CASE v = 0
        BY <2>3, <2>4, <3>1
      <3>2. CASE v # 0
        <4>1. D = CloseSockets(I, {v}) /\ E = CloseSockets(S, {v}) /\ {v} \in SUBSET Fds
          BY <1>4, <3>2
        <4> HIDE DEF D, E
        <4>2. /\ D \in Servers /\ D.tab = I.tab /\ D.states = I.states /\ D.tocli = I.tocli
              /\ D.pool = I.pool /\ D.pooled = I.pooled \ {v} /\ D.over = I.over
              /\ D.sock = [u \in Fds |-> IF u \in {v} THEN NoTarget ELSE I.sock[u]]
          BY <2>3, <4>1, CloseSocketsTyped
        <4>3. /\ E.tab = S.tab /\ E.states = S.states /\ E.tocli = S.tocli
              /\ E.pooled = S.pooled \ {v} /\ E.over = S.over
              /\ E.sock = [u \in Fds |-> IF u \in {v} THEN NoTarget ELSE S.sock[u]]
          BY <1>1, <4>1, CloseSocketsTyped
        <4>4. D.sock = E.sock /\ D.over = E.over
          BY <2>4, <4>2, <4>3
        <4> QED
          BY <2>4, <4>2, <4>3, <4>4
      <3> QED
        BY <3>1, <3>2
    <2> HIDE DEF D, E
    <2>7. ServerInv(E) /\ get_conn(E.tab, c) # -1
      BY <2>5 DEF Kept
    <2>8. CASE t \notin HttpTargets
      <3>1. R = Refused(I, c)
        BY <1>5, <1>7, <2>8, ConstantFacts
      <3>2. CountedIn(i.active, S.pooled, S.sock)
        <4>1. \A x \in HttpTargets : x # t /\ x \in Targets
          BY <2>8, ConstantFacts
        <4> QED
          BY <2>1, <4>1 DEF ServerInv, CountedIn, OtherwiseSame
      <3>3. ServerInv(I)
        BY <2>3, <2>4, <3>2 DEF ServerInv
      <3>4. NoOlder(S.states, I.states)
        BY <2>4 DEF NoOlder
      <3>5. Kept(I, R)
        BY <2>4, <3>1, <3>3, RefusedKept
      <3> QED
        BY <3>3, <3>4, <3>5, KeptTwice DEF Kept
    <2>9. CASE t \in HttpTargets /\ v # 0 /\ alive
      <3> DEFINE B == [I EXCEPT !.pooled = @ \ {v}, !.idle[v] = 0, !.torn = @ \ {v}]
      <3>1. R = Stored(B, c, v, t, TRUE, TRUE)
        <4>1. R = Reused(I, c, v, t)
          BY <1>5, <2>9, ConstantFacts
        <4> QED
          BY <4>1 DEF Reused
      <3>2. B \in Servers
        <4>1. 0 \in 0..(PoolIdle + 1)
          BY ConstantFacts
        <4> QED
          BY <2>3, <4>1 DEF Servers
      <3>3. B.tab = S.tab /\ B.states = S.states /\ B.tocli = S.tocli /\ B.pooled = S.pooled \ {v}
            /\ B.sock = S.sock /\ B.over = S.over /\ B.pool = i
        BY <2>3, <2>4 DEF Servers
      <3> HIDE DEF B
      <3>4. v \in Fds /\ v \in S.pooled /\ S.sock[v] = t
        BY <1>4, <2>9
      <3> QED
        BY <1>7, <2>1, <3>1, <3>2, <3>3, <3>4, StoredKept DEF OtherwiseSame
    <2>10. CASE t \in HttpTargets /\ ~(v # 0 /\ alive) /\ link /\ FreeFds(D) # {}
      <3> DEFINE u == LowestFree(D)
                 B == [D EXCEPT !.sock[u] = t]
      <3>1. R = Stored(B, c, u, t, k, FALSE)
        <4>1. R = Connecting(D, c, t, k)
          BY <1>5, <2>10, ConstantFacts
        <4> QED
          BY <4>1 DEF Connecting
      <3>2. u \in Fds /\ u \notin D.tab.open /\ D.sock[u] = NoTarget
        BY <2>10, LowestFreeIs DEF OpenFds, Sockets
      <3> HIDE DEF u
      <3>3. B \in Servers
        BY <1>7, <2>6, <3>2 DEF Servers
      <3>4. B.tab = E.tab /\ B.states = E.states /\ B.tocli = E.tocli /\ B.pooled = E.pooled
            /\ B.sock = [E.sock EXCEPT ![u] = t] /\ B.over = E.over /\ B.pool = i
        BY <2>6 DEF Servers
      <3>5. B.sock[u] = t /\ OtherwiseSame(Fds, u, E.sock, B.sock)
        <4>1. E.sock \in SocketTables
          BY <2>6, ServerFields
        <4> QED
          BY <3>2, <3>4, <4>1 DEF SocketTables, OtherwiseSame
      <3> HIDE DEF B
      <3>6. u \notin E.tab.open /\ E.sock[u] = NoTarget /\ E.pooled = E.pooled \ {u}
        <4>1. E.sock[u] = NoTarget /\ u \notin E.tab.open
          BY <2>6, <3>2
        <4>2. u \notin E.pooled
          BY <2>7, <4>1 DEF ServerInv, Linked
        <4> QED
          BY <4>1, <4>2
      <3>7. Kept(E, R)
        BY <1>7, <2>1, <2>5, <2>7, <3>1, <3>2, <3>3, <3>4, <3>5, <3>6, StoredKept
      <3> QED
        BY <2>5, <3>7, KeptTwice
    <2>11. CASE t \in HttpTargets /\ ~(v # 0 /\ alive) /\ ~(link /\ FreeFds(D) # {})
      <3>1. R = Refused(J, c)
        BY <1>5, <2>11, ConstantFacts
      <3>2. J \in Servers
        BY <2>2, <2>6 DEF Servers
      <3>3. J.tab = E.tab /\ J.states = E.states /\ J.tocli = E.tocli /\ J.pooled = E.pooled
            /\ J.sock = E.sock /\ J.over = E.over /\ J.pool = j
        BY <2>6 DEF Servers
      <3> HIDE DEF J
      <3>4. Kept(E, J)
        <4>1. J.pool.active = E.pool.active
          BY <2>2, <2>5, <3>3
        <4> QED
          BY <2>7, <3>2, <3>3, <4>1, CoreKept DEF ServerInv
      <3>5. ServerInv(J) /\ get_conn(J.tab, c) # -1
        BY <2>7, <3>3, <3>4 DEF Kept
      <3>6. Kept(J, R)
        BY <3>1, <3>5, RefusedKept
      <3> QED
        BY <2>5, <3>4, <3>6, KeptTwice
    <2> QED
      BY <2>8, <2>9, <2>10, <2>11
  <1> QED
    BY <1>2, <1>6, <1>7
-----------------------------------------------------------------------------
(* Changes of one field.                                                     *)

\* The exchange e goes on as f: its socket, its target and its age stay.
Onward(e, f) ==
  /\ f \in ProxyState /\ f.up = e.up /\ f.target = e.target /\ f.age = e.age
  /\ e.connected => f.connected

WithState(S, c, e) == [S EXCEPT !.states[c] = e]

\* A handler that only advances one exchange (connected, head seen, paused) keeps the
\* invariant.
LEMMA StateKept ==
  ASSUME NEW S, ServerInv(S), NEW c \in Fds, NEW e, Onward(S.states[c], e),
         NEW R, R = WithState(S, c, e)
  PROVE  /\ Kept(S, R) /\ R.states[c] = e
         /\ R.tab = S.tab /\ R.tocli = S.tocli /\ R.estab = S.estab /\ R.sock = S.sock /\ R.over = S.over
  <1> DEFINE x == [S.states EXCEPT ![c] = e]
  <1>1. S \in Servers /\ S.states \in StateTables
    BY ServerFields DEF ServerInv
  <1>2. x \in StateTables /\ x[c] = e /\ \A d \in Fds \ {c} : x[d] = S.states[d]
    BY <1>1 DEF StateTables, Onward
  <1>3. R = [S EXCEPT !.states = x]
    BY DEF WithState
  <1> HIDE DEF x
  <1>4. R \in Servers
    BY <1>1, <1>2, <1>3 DEF Servers, StateTables
  <1>5. /\ R.tab = S.tab /\ R.states = x /\ R.tocli = S.tocli /\ R.estab = S.estab
        /\ R.pooled = S.pooled /\ R.sock = S.sock /\ R.over = S.over /\ R.pool = S.pool
    BY <1>1, <1>3 DEF Servers
  <1>6. \A d \in Fds : /\ R.states[d].up = S.states[d].up
                       /\ R.states[d].target = S.states[d].target
                       /\ R.states[d].age = S.states[d].age
                       /\ S.states[d].connected => R.states[d].connected
    BY <1>2, <1>5 DEF Onward
  <1>7. R.tab.open \subseteq S.tab.open /\ R.tab.open \subseteq Mapped(R.tab)
        /\ R.pool.active = S.pool.active
    BY <1>5 DEF ServerInv
  <1>8. Kept(S, R)
    BY <1>4, <1>5, <1>6, <1>7, CoreKept
  <1> QED
    BY <1>2, <1>5, <1>8

\* The sets that only the kernel or an observer knows.
LEMMA SetsKept ==
  ASSUME NEW S, ServerInv(S), NEW F \in SUBSET Fds,
         NEW R, \/ R = [S EXCEPT !.estab = F] \/ R = [S EXCEPT !.stale = F]
                \/ R = [S EXCEPT !.torn = F]
  PROVE  Kept(S, R) /\ R.states = S.states /\ R.tocli = S.tocli /\ R.tab = S.tab
  <1>1. S \in Servers
    BY DEF ServerInv
  <1>2. R \in Servers
    BY <1>1 DEF Servers
  <1>3. /\ R.tab = S.tab /\ R.states = S.states /\ R.tocli = S.tocli
        /\ R.pooled = S.pooled /\ R.sock = S.sock /\ R.over = S.over /\ R.pool = S.pool
    BY <1>1 DEF Servers
  <1>4. Kept(S, R)
    BY <1>2, <1>3, CoreKept DEF ServerInv
  <1> QED
    BY <1>3, <1>4

\* An upstream socket leaves the event loop.
LEMMA DeafKept ==
  ASSUME NEW S, ServerInv(S), NEW u \in Fds, NEW R, R = [S EXCEPT !.reg[u] = {}]
  PROVE  Kept(S, R) /\ R.states = S.states /\ R.tocli = S.tocli /\ R.tab = S.tab
  <1>1. S \in Servers
    BY DEF ServerInv
  <1>2. R \in Servers
    BY <1>1 DEF Servers
  <1>3. /\ R.tab = S.tab /\ R.states = S.states /\ R.tocli = S.tocli
        /\ R.pooled = S.pooled /\ R.sock = S.sock /\ R.over = S.over /\ R.pool = S.pool
    BY <1>1 DEF Servers
  <1>4. Kept(S, R)
    BY <1>2, <1>3, CoreKept DEF ServerInv
  <1> QED
    BY <1>3, <1>4

\* An exchange that takes another value in one of the fields that say how far it is.
LEMMA StateTyped ==
  ASSUME NEW e \in ProxyState
  PROVE  /\ [e EXCEPT !.connected = TRUE] \in ProxyState
         /\ \A b \in BOOLEAN : /\ [e EXCEPT !.buffered = b] \in ProxyState
                               /\ [e EXCEPT !.pending = b] \in ProxyState
         /\ \A r \in Responses : [e EXCEPT !.resp = r] \in ProxyState
  BY DEF ProxyState

-----------------------------------------------------------------------------
(* The events.                                                               *)

\* conn_add maps the new descriptor and no other.
LEMMA ConnAddTyped ==
  ASSUME NEW T \in Tables, NEW f \in Fds, FreeSlots(T) # {}
  PROVE  /\ conn_add(T, f) \in Tables /\ conn_add(T, f).open = T.open
         /\ Mapped(conn_add(T, f)) = Mapped(T) \cup {f}
  <1> DEFINE i == FirstFree(T)
             n == NewClient(T.clients[i], f)
             R == [T EXCEPT !.clients[i] = n, !.fd_to_index[f] = i]
  <1>1. i \in Slots
    <2>1. FreeSlots(T) \subseteq Nat
      BY DEF FreeSlots, Slots
    <2>2. \E s \in FreeSlots(T) : \A r \in FreeSlots(T) : s <= r
      BY <2>1, LeastNat
    <2>3. i \in FreeSlots(T)
      BY <2>2 DEF FirstFree
    <2> QED
      BY <2>3 DEF FreeSlots
  <1>2. conn_add(T, f) = R
    BY DEF conn_add
  <1>3. T.clients[i] \in ClientData
    BY <1>1 DEF Tables
  <1>4. n \in ClientData
    BY <1>3, SlotsTyped
  <1> HIDE DEF i, n
  <1>5. R \in Tables /\ R.open = T.open /\ R.fd_to_index = [T.fd_to_index EXCEPT ![f] = i]
    BY <1>1, <1>4 DEF Tables
  <1>6. T.fd_to_index \in [Fds -> Slots \cup {-1}] /\ i # -1
    BY <1>1 DEF Tables, Slots
  <1> HIDE DEF R
  <1>7. Mapped(R) = Mapped(T) \cup {f}
    BY <1>5, <1>6 DEF Mapped, get_conn
  <1> QED
    BY <1>2, <1>5, <1>7

\* A new client has a number that no upstream socket has.
LEMMA AcceptKept ==
  ASSUME NEW S, ServerInv(S), FreeFds(S) # {}, FreeSlots(S.tab) # {},
         NEW f, f = LowestFree(S), NEW T, T = conn_add([S.tab EXCEPT !.open = @ \cup {f}], f),
         NEW R, R = [S EXCEPT !.tab = WithConn(T, f, [Conn(T, f) EXCEPT !.is_http = TRUE]),
                              !.reg[f] = {"r"}]
  PROVE  Kept(S, R)
  <1> DEFINE T0 == [S.tab EXCEPT !.open = @ \cup {f}]
             d == [Conn(T, f) EXCEPT !.is_http = TRUE]
             V == WithConn(T, f, d)
             g == [S.reg EXCEPT ![f] = {"r"}]
  <1>1. S \in Servers /\ S.tab \in Tables
    BY ServerFields DEF ServerInv
  <1>2. f \in Fds /\ f \notin S.tab.open /\ S.sock[f] = NoTarget
    BY LowestFreeIs DEF OpenFds, Sockets
  <1>3. T0 \in Tables /\ T0.open = S.tab.open \cup {f} /\ T0.clients = S.tab.clients
        /\ T0.fd_to_index = S.tab.fd_to_index
    BY <1>1, <1>2 DEF Tables
  <1>4. T = conn_add(T0, f)
    OBVIOUS
  <1> HIDE DEF T0
  <1>5. FreeSlots(T0) # {} /\ Mapped(T0) = Mapped(S.tab)
    BY <1>3 DEF FreeSlots, Mapped, get_conn
  <1>6. T \in Tables /\ T.open = S.tab.open \cup {f} /\ Mapped(T) = Mapped(S.tab) \cup {f}
    <2>1. /\ conn_add(T0, f) \in Tables /\ conn_add(T0, f).open = T0.open
          /\ Mapped(conn_add(T0, f)) = Mapped(T0) \cup {f}
      BY <1>2, <1>3, <1>5, ConnAddTyped
    <2> QED
      BY <1>3, <1>4, <1>5, <2>1
  <1>7. get_conn(T, f) # -1
    BY <1>2, <1>6 DEF Mapped
  <1>8. d \in ClientData
    BY <1>2, <1>6, <1>7, ConnTyped, SlotsTyped
  <1> HIDE DEF d
  <1>9. V \in Tables /\ V.open = S.tab.open \cup {f} /\ Mapped(V) = Mapped(S.tab) \cup {f}
    <2>1. V \in Tables /\ V.open = T.open /\ Mapped(V) = Mapped(T)
      BY <1>2, <1>6, <1>7, <1>8, WithConnTyped
    <2> QED
      BY <1>6, <2>1
  <1>10. R = [S EXCEPT !.tab = V, !.reg = g] /\ g \in [Fds -> SUBSET {"r", "w"}]
    BY <1>1, ServerFields DEF d
  <1> HIDE DEF V, g
  <1>11. R \in Servers
    BY <1>1, <1>9, <1>10 DEF Servers
  <1>12. /\ R.tab = V /\ R.states = S.states /\ R.tocli = S.tocli
         /\ R.pooled = S.pooled /\ R.sock = S.sock /\ R.over = S.over /\ R.pool = S.pool
    BY <1>1, <1>10 DEF Servers
  <1>13. Linked(V.open, S.states, S.tocli, S.pooled, S.sock, S.over)
    BY <1>2, <1>9 DEF ServerInv, Linked
  <1>14. V.open \subseteq Mapped(V)
    BY <1>9 DEF ServerInv
  <1>15. ServerInv(R)
    BY <1>11, <1>12, <1>13, <1>14 DEF ServerInv
  <1> QED
    BY <1>12, <1>15 DEF Kept, NoOlder

\* proxy_on_upstream_write keeps the invariant, whatever it could send.
LEMMA DrainedKept ==
  ASSUME NEW S, ServerInv(S), NEW u \in Fds, S.tocli[u] \in Fds,
         S.states[S.tocli[u]].up # 0, NEW sent \in Taken, NEW R, R = Drained(S, u, sent)
  PROVE  Kept(S, R)
  <1>0. PICK c \in Fds : c = S.tocli[u]
    OBVIOUS
  <1> DEFINE e == [S.states[c] EXCEPT !.connected = TRUE]
             A == WithState(S, c, e)
             f == [A.states[c] EXCEPT !.pending = FALSE]
             B == WithState(A, c, f)
  <1>1. S.states[c] \in ProxyState
    BY ServerFields DEF ServerInv, StateTables
  <1>2. Onward(S.states[c], e) /\ e \in ProxyState /\ e.up = S.states[c].up
    BY <1>1, StateTyped DEF ProxyState, Onward
  <1>3. \/ R = event_set(B, u, {"r"}) \/ R = A \/ R = proxy_cleanup(A, c)
    BY <1>0 DEF Drained, Taken, WithState
  <1> HIDE DEF e
  <1>4. Kept(S, A) /\ A.states[c] = e
    BY <1>2, StateKept
  <1> HIDE DEF A
  <1>5. ServerInv(A) /\ A.states[c].up # 0
    BY <1>0, <1>2, <1>4 DEF Kept
  <1>6. Onward(A.states[c], f)
    <2>1. A.states[c] \in ProxyState
      BY <1>2, <1>4
    <2>2. f \in ProxyState
      BY <2>1, StateTyped
    <2> QED
      BY <2>1, <2>2 DEF ProxyState, Onward
  <1> HIDE DEF f
  <1>7. Kept(A, B)
    BY <1>5, <1>6, StateKept
  <1> HIDE DEF B
  <1>8. Kept(B, event_set(B, u, {"r"}))
    <2>1. ServerInv(B)
      BY <1>7 DEF Kept
    <2> QED
      BY <2>1, EventSetKept
  <1>9. Kept(A, event_set(B, u, {"r"}))
    BY <1>7, <1>8, KeptTwice
  <1>10. Kept(A, proxy_cleanup(A, c))
    BY <1>5, CleanupKept
  <1> QED
    BY <1>3, <1>4, <1>9, <1>10, KeptTwice

\* Passing response bytes to the client keeps the invariant and the exchange.
LEMMA RelayedKept ==
  ASSUME NEW S, ServerInv(S), NEW u \in Fds, S.tocli[u] \in Fds,
         S.states[S.tocli[u]].up # 0, NEW taken, NEW R, R = Relayed(S, u, taken)
  PROVE  Kept(S, R) /\ R.states[S.tocli[u]].up # 0
  <1>0. PICK c \in Fds : c = S.tocli[u]
    OBVIOUS
  <1> DEFINE e == [S.states[c] EXCEPT !.buffered = TRUE]
             A == WithState(S, c, e)
             B == [A EXCEPT !.reg[u] = {}]
  <1>1. S \in Servers /\ S.states[c] \in ProxyState
    BY ServerFields DEF ServerInv, StateTables
  <1>2. Onward(S.states[c], e) /\ e.up = S.states[c].up
    BY <1>1, StateTyped DEF ProxyState, Onward
  <1>3. R = S \/ R = event_set(B, c, {"r", "w"})
    BY <1>0, <1>1 DEF Relayed, Servers, WithState
  <1> HIDE DEF e
  <1>4. Kept(S, A) /\ A.states[c] = e
    BY <1>2, StateKept
  <1> HIDE DEF A
  <1>5. ServerInv(A)
    BY <1>4 DEF Kept
  <1>6. Kept(A, B) /\ B.states = A.states
    BY <1>5, DeafKept
  <1> HIDE DEF B
  <1>7. Kept(B, event_set(B, c, {"r", "w"})) /\ event_set(B, c, {"r", "w"}).states = B.states
    <2>1. ServerInv(B)
      BY <1>6 DEF Kept
    <2> QED
      BY <2>1, EventSetKept
  <1>8. Kept(S, B)
    BY <1>4, <1>6, KeptTwice
  <1>9. Kept(S, event_set(B, c, {"r", "w"}))
    BY <1>7, <1>8, KeptTwice
  <1> QED
    BY <1>0, <1>2, <1>3, <1>4, <1>6, <1>7, <1>9, KeptSame

\* An upstream event finds an exchange.
LEMMA ReachesOwner ==
  ASSUME ServerInv(srv), NEW u \in Fds, NEW ev, Reaches(u, ev)
  PROVE  Owner(u) \in Fds /\ srv.states[Owner(u)].up # 0 /\ Owner(u) = srv.tocli[u]
  <1>1. srv.tocli \in ClientMaps
    BY ServerFields DEF ServerInv
  <1> QED
    BY <1>1 DEF Reaches, Owner, ClientMaps

\* proxy_handler keeps the invariant for every route, target and outcome of connect.
LEMMA RequestKept ==
  ASSUME ServerInv(srv), NEW c \in Fds, NEW ka \in BOOLEAN, NEW start \in Starts,
         NEW k \in Routes, NEW alive \in BOOLEAN, NEW link \in BOOLEAN,
         Request(c, ka, start, k, alive, link)
  PROVE  Kept(srv, srv')
  <1> DEFINE d == [Conn(srv.tab, c) EXCEPT !.state = "done", !.ka = ka]
             S == WithClient(srv, c, d)
             t == upstream_pool_resolve(S.pool, Mode, start)
  <1>1. PICK v \in keepalive_pool_take(S, t, k) :
          srv' = proxy_handler(S, c, start, k, v, alive, link)
    BY DEF Request, Step
  <1>2. c \in srv.tab.open /\ srv.tab \in Tables /\ get_conn(srv.tab, c) # -1
    <2>1. c \in srv.tab.open
      BY DEF Request, Live
    <2> QED
      BY <2>1, ServerFields DEF ServerInv, Mapped
  <1>3. d \in ClientData
    BY <1>2, ConnTyped, SlotsTyped
  <1> HIDE DEF d
  <1>4. Kept(srv, S) /\ Mapped(S.tab) = Mapped(srv.tab)
    BY <1>2, <1>3, WithClientKept
  <1> HIDE DEF S
  <1>5. ServerInv(S) /\ get_conn(S.tab, c) # -1
    BY <1>2, <1>4 DEF Kept, Mapped
  <1>6. start \in Targets /\ k \in BOOLEAN
    BY ConstantFacts, ExchangeAssumption DEF Starts
  <1>7. v # 0 => v \in PooledFor(S, t)
    BY <1>1 DEF keepalive_pool_take
  <1>8. Kept(S, srv')
    BY <1>1, <1>5, <1>6, <1>7, HandlerKept
  <1> QED
    BY <1>4, <1>8, KeptTwice

\* proxy_on_client_writable keeps the invariant.
LEMMA ClientWritableKept ==
  ASSUME ServerInv(srv), NEW c \in Fds, NEW taken \in Taken, ClientWritable(c, taken)
  PROVE  Kept(srv, srv')
  <1> DEFINE e == [srv.states[c] EXCEPT !.buffered = FALSE]
             B == WithState(srv, c, e)
             A == event_set(B, srv.states[c].up, {"r"})
  <1>1. srv.states[c] \in ProxyState /\ srv.states[c].up # 0
    BY ServerFields DEF ServerInv, StateTables, ClientWritable
  <1>2. srv.states[c].buffered \in BOOLEAN /\ srv.states[c].up \in Fds
    BY <1>1 DEF ProxyState
  <1>3. \/ srv' = event_set(srv, c, {"r"}) \/ srv' = event_set(A, c, {"r"})
        \/ srv' = srv \/ srv' = proxy_cleanup(srv, c)
    BY <1>2 DEF ClientWritable, Step, Taken, WithState
  <1>4. Onward(srv.states[c], e) /\ e.up = srv.states[c].up
    BY <1>1, StateTyped DEF ProxyState, Onward
  <1> HIDE DEF e
  <1>5. Kept(srv, B)
    BY <1>4, StateKept
  <1> HIDE DEF B
  <1>6. Kept(B, A)
    <2>1. ServerInv(B)
      BY <1>5 DEF Kept
    <2> QED
      BY <1>2, <2>1, EventSetKept
  <1> HIDE DEF A
  <1>7. Kept(A, event_set(A, c, {"r"}))
    <2>1. ServerInv(A)
      BY <1>6 DEF Kept
    <2> QED
      BY <2>1, EventSetKept
  <1>8. Kept(srv, A)
    BY <1>5, <1>6, KeptTwice
  <1>9. Kept(srv, event_set(A, c, {"r"}))
    BY <1>7, <1>8, KeptTwice
  <1>10. Kept(srv, event_set(srv, c, {"r"})) /\ Kept(srv, srv)
    BY EventSetKept, KeptSame
  <1>11. Kept(srv, proxy_cleanup(srv, c))
    BY <1>1, CleanupKept
  <1> QED
    BY <1>3, <1>9, <1>10, <1>11

\* proxy_on_upstream_read keeps the invariant for every response and framing.
LEMMA UpstreamDataKept ==
  ASSUME ServerInv(srv), NEW u \in Fds, NEW resp \in Responses, NEW last \in BOOLEAN,
         NEW taken \in Taken, UpstreamData(u, resp, last, taken)
  PROVE  Kept(srv, srv')
  <1> DEFINE c == Owner(u)
             e == [srv.states[c] EXCEPT !.resp = resp]
             S == WithState(srv, c, e)
             L == Relayed(S, u, taken)
             G == proxy_cleanup(L, c)
  <1>1. c \in Fds /\ srv.states[c].up # 0 /\ c = srv.tocli[u] /\ srv.states[c] \in ProxyState
    <2>1. Reaches(u, "r")
      BY DEF UpstreamData, Ready
    <2>2. c \in Fds /\ srv.states[c].up # 0 /\ c = srv.tocli[u]
      BY <2>1, ReachesOwner
    <2> QED
      BY <2>2, ServerFields DEF ServerInv, StateTables
  <1>2. \/ srv' = proxy_cleanup(S, c) \/ srv' = L \/ srv' = [G EXCEPT !.torn = @ \ {u}]
    BY DEF UpstreamData, Step, WithState
  <1> HIDE DEF c
  <1>3. Onward(srv.states[c], e) /\ e.up = srv.states[c].up
    BY <1>1, StateTyped DEF ProxyState, Onward
  <1> HIDE DEF e
  <1>4. Kept(srv, S) /\ S.states[c] = e /\ S.tocli = srv.tocli
    BY <1>1, <1>3, StateKept
  <1> HIDE DEF S
  <1>5. ServerInv(S) /\ S.states[c].up # 0 /\ c = S.tocli[u]
    BY <1>1, <1>3, <1>4 DEF Kept
  <1>6. Kept(S, proxy_cleanup(S, c))
    BY <1>1, <1>5, CleanupKept
  <1>7. Kept(S, L) /\ L.states[c].up # 0
    BY <1>1, <1>5, RelayedKept
  <1> HIDE DEF L
  <1>8. Kept(L, G)
    <2>1. ServerInv(L)
      BY <1>7 DEF Kept
    <2> QED
      BY <1>1, <1>7, <2>1, CleanupKept
  <1> HIDE DEF G
  <1>9. Kept(G, [G EXCEPT !.torn = @ \ {u}])
    <2>1. ServerInv(G) /\ G.torn \ {u} \in SUBSET Fds
      BY <1>8, ServerFields DEF Kept, ServerInv
    <2> QED
      BY <2>1, SetsKept
  <1>10. Kept(srv, L) /\ Kept(srv, proxy_cleanup(S, c))
    BY <1>4, <1>6, <1>7, KeptTwice
  <1>11. Kept(srv, G)
    BY <1>8, <1>10, KeptTwice
  <1>12. Kept(srv, [G EXCEPT !.torn = @ \ {u}])
    BY <1>9, <1>11, KeptTwice
  <1> QED
    BY <1>2, <1>10, <1>12
\* Every event handler keeps the maps, the pools and the counters in agreement and
\* makes no connecting exchange older.
LEMMA EventKept ==
  ASSUME ServerInv(srv), Event
  PROVE  Kept(srv, srv') /\ phase = "events" /\ UNCHANGED <<phase, todo, swept, n_stale>>
  <1>0. ASSUME NEW u \in Fds, NEW ev, Reaches(u, ev)
        PROVE  Owner(u) \in Fds /\ srv.states[Owner(u)].up # 0 /\ Owner(u) = srv.tocli[u]
    BY <1>0, ReachesOwner
  <1>1. CASE Accept
    <2>1. Kept(srv, srv')
      BY <1>1, AcceptKept DEF Accept, Step
    <2> QED
      BY <1>1, <2>1 DEF Accept, Step
  <1>2. ASSUME NEW c \in Fds, NEW ka \in BOOLEAN, NEW alive \in BOOLEAN, NEW link \in BOOLEAN,
               NEW k \in Routes, NEW start \in Starts, Request(c, ka, start, k, alive, link)
        PROVE  Kept(srv, srv') /\ phase = "events" /\ UNCHANGED <<phase, todo, swept, n_stale>>
    <2>1. Kept(srv, srv')
      BY <1>2, RequestKept
    <2> QED
      BY <1>2, <2>1 DEF Request, Step
  <1>3. ASSUME NEW c \in Fds, ClientGone(c)
        PROVE  Kept(srv, srv') /\ phase = "events" /\ UNCHANGED <<phase, todo, swept, n_stale>>
    <2>1. srv' = DropClients(srv, {c})
      BY <1>3 DEF ClientGone, Step, DropClient
    <2>2. Kept(srv, srv')
      BY <2>1, DropClientsKept
    <2> QED
      BY <1>3, <2>2 DEF ClientGone, Step
  <1>4. ASSUME NEW c \in Fds, NEW taken \in Taken, ClientWritable(c, taken)
        PROVE  Kept(srv, srv') /\ phase = "events" /\ UNCHANGED <<phase, todo, swept, n_stale>>
    <2>1. Kept(srv, srv')
      BY <1>4, ClientWritableKept
    <2> QED
      BY <1>4, <2>1 DEF ClientWritable, Step
  <1>5. ASSUME NEW u \in Fds, UpstreamConnectError(u)
        PROVE  Kept(srv, srv') /\ phase = "events" /\ UNCHANGED <<phase, todo, swept, n_stale>>
    <2>1. Reaches(u, "w") /\ srv' = ConnectFailed(srv, Owner(u))
      BY <1>5 DEF UpstreamConnectError, Ready, Step
    <2>2. Owner(u) \in Fds /\ srv.states[Owner(u)].up # 0
      BY <1>0, <2>1
    <2>3. Kept(srv, srv')
      BY <2>1, <2>2, ConnectFailedKept
    <2> QED
      BY <1>5, <2>3 DEF UpstreamConnectError, Step
  <1>6. ASSUME NEW u \in Fds, NEW sent \in Taken, UpstreamWrite(u, sent)
        PROVE  Kept(srv, srv') /\ phase = "events" /\ UNCHANGED <<phase, todo, swept, n_stale>>
    <2> DEFINE F == srv.estab \cup {u}
               A == [srv EXCEPT !.estab = F]
    <2>1. Reaches(u, "w") /\ srv' = Drained(A, u, sent)
      BY <1>6 DEF UpstreamWrite, Ready, Step
    <2>2. srv.tocli[u] \in Fds /\ srv.states[srv.tocli[u]].up # 0
      BY <1>0, <2>1
    <2>3. F \in SUBSET Fds
      BY ServerFields DEF ServerInv
    <2> HIDE DEF F
    <2>4. Kept(srv, A) /\ A.states = srv.states /\ A.tocli = srv.tocli
      BY <2>3, SetsKept
    <2> HIDE DEF A
    <2>5. ServerInv(A) /\ A.tocli[u] \in Fds /\ A.states[A.tocli[u]].up # 0
      BY <2>2, <2>4 DEF Kept
    <2>6. Kept(A, srv')
      BY <2>1, <2>5, DrainedKept
    <2>7. Kept(srv, srv')
      BY <2>4, <2>6, KeptTwice
    <2> QED
      BY <1>6, <2>7 DEF UpstreamWrite, Step
  <1>7. ASSUME NEW u \in Fds, StaleWrite(u)
        PROVE  Kept(srv, srv') /\ phase = "events" /\ UNCHANGED <<phase, todo, swept, n_stale>>
    <2> DEFINE F == srv.stale \ {u}
               A == [srv EXCEPT !.stale = F]
    <2>1. Reaches(u, "w") /\ srv' = Drained(A, u, "part")
      BY <1>7 DEF StaleWrite, Step
    <2>2. srv.tocli[u] \in Fds /\ srv.states[srv.tocli[u]].up # 0
      BY <1>0, <2>1
    <2>3. F \in SUBSET Fds
      BY ServerFields DEF ServerInv
    <2> HIDE DEF F
    <2>4. Kept(srv, A) /\ A.states = srv.states /\ A.tocli = srv.tocli
      BY <2>3, SetsKept
    <2> HIDE DEF A
    <2>5. ServerInv(A) /\ A.tocli[u] \in Fds /\ A.states[A.tocli[u]].up # 0 /\ "part" \in Taken
      BY <2>2, <2>4 DEF Kept, Taken
    <2>6. Kept(A, srv')
      BY <2>1, <2>5, DrainedKept
    <2>7. Kept(srv, srv')
      BY <2>4, <2>6, KeptTwice
    <2> QED
      BY <1>7, <2>7 DEF StaleWrite, Step
  <1>8. ASSUME NEW u \in Fds, UpstreamEnd(u)
        PROVE  Kept(srv, srv') /\ phase = "events" /\ UNCHANGED <<phase, todo, swept, n_stale>>
    <2>1. Reaches(u, "r") /\ srv' = proxy_cleanup(srv, Owner(u))
      BY <1>8 DEF UpstreamEnd, Ready, Step
    <2>2. Owner(u) \in Fds /\ srv.states[Owner(u)].up # 0
      BY <1>0, <2>1
    <2>3. Kept(srv, srv')
      BY <2>1, <2>2, CleanupKept
    <2> QED
      BY <1>8, <2>3 DEF UpstreamEnd, Step
  <1>9. ASSUME NEW u \in Fds, NEW resp \in Responses, NEW last \in BOOLEAN, NEW taken \in Taken,
               UpstreamData(u, resp, last, taken)
        PROVE  Kept(srv, srv') /\ phase = "events" /\ UNCHANGED <<phase, todo, swept, n_stale>>
    <2>1. Kept(srv, srv')
      BY <1>9, UpstreamDataKept
    <2> QED
      BY <1>9, <2>1 DEF UpstreamData, Step
  <1>10. Answers \cup {"none"} \subseteq Responses
    BY ExchangeAssumption DEF Responses
  <1> QED
    BY <1>1, <1>2, <1>3, <1>4, <1>5, <1>6, <1>7, <1>8, <1>9, <1>10 DEF Event

-----------------------------------------------------------------------------
(* The inductive invariant.                                                  *)

\* The server starts with every map empty and nothing counted.
LEMMA InitIInv == Init => IInv
  <1> SUFFICES ASSUME Init PROVE IInv
    OBVIOUS
  <1> DEFINE x == [c \in Fds |-> NoState]
             m == [u \in Fds |-> 0]
             n == [u \in Fds |-> 0]
             g == [f \in Fds |-> {}]
             k == [u \in Fds |-> NoTarget]
  <1>1. srv = [tab |-> EmptyTable, states |-> x, tocli |-> m, pool |-> upstream_pool_register,
               pooled |-> {}, idle |-> n, reg |-> g, sock |-> k,
               estab |-> {}, stale |-> {}, torn |-> {}, over |-> {}]
    BY DEF Init
  <1>2. EmptyTable \in Tables /\ EmptyTable.open = {}
    <2>1. EmptySlot \in ClientData
      BY TableAssumption DEF EmptySlot, ClientData, Peers, ParserStates
    <2> HIDE DEF EmptySlot
    <2> QED
      BY <2>1 DEF EmptyTable, Tables
  <1>3. upstream_pool_register \in Pools /\ \A t \in Targets : upstream_pool_register.active[t] = 0
    BY PoolAssumption DEF upstream_pool_register, Pools
  <1>4. NoState \in ProxyState /\ NoState.up = 0
    BY ConstantFacts DEF NoState, ProxyState, Responses
  <1>5. x \in StateTables /\ m \in ClientMaps /\ k \in SocketTables
        /\ n \in [Fds -> 0..(PoolIdle + 1)] /\ g \in [Fds -> SUBSET {"r", "w"}]
    BY <1>4, ConstantFacts DEF StateTables, ClientMaps, SocketTables
  <1>6. /\ \A c \in Fds : x[c].up = 0
        /\ \A u \in Fds : m[u] = 0 /\ k[u] = NoTarget
    BY <1>4
  <1> HIDE DEF x, m, n, g, k
  <1>7. srv \in Servers
    BY <1>1, <1>2, <1>3, <1>5 DEF Servers, StateTables, ClientMaps, SocketTables
  <1>8. /\ srv.tab = EmptyTable /\ srv.states = x /\ srv.tocli = m /\ srv.pooled = {}
        /\ srv.pool = upstream_pool_register /\ srv.sock = k /\ srv.over = {}
    BY <1>1
  <1>9. Linked({}, x, m, {}, k, {})
    BY <1>6 DEF Linked
  <1>10. CountedIn(upstream_pool_register.active, {}, k)
    <2>1. SUFFICES ASSUME NEW t \in HttpTargets
                   PROVE  upstream_pool_register.active[t] = Cardinality(InUse({}, k, t))
      BY DEF CountedIn
    <2>2. t \in Targets /\ t # NoTarget
      BY ConstantFacts
    <2>3. InUse({}, k, t) = {}
      BY <1>6, <2>2 DEF InUse
    <2> QED
      BY <1>3, <2>2, <2>3, FS_EmptySet
  <1>11. ServerInv(srv)
    BY <1>2, <1>7, <1>8, <1>9, <1>10 DEF ServerInv
  <1>12. ConnectSwept
    BY DEF ConnectSwept, Init
  <1> QED
    BY <1>11, <1>12 DEF IInv, Init

\* An exchange that has not become older is still within its time.
LEMMA SweptKept ==
  ASSUME ServerInv(srv), ConnectSwept, NoOlder(srv.states, srv'.states),
         phase = "events", swept' = swept, n_stale' = n_stale
  PROVE  ConnectSwept'
  <1>1. SUFFICES ASSUME swept, n_stale # ProxySweepMax, NEW c \in Fds, srv'.states[c].up # 0,
                        ~srv'.states[c].connected
                 PROVE  srv'.states[c].age < ProxyTimeout
    BY DEF ConnectSwept, Exchanges
  <1>2. CASE srv'.states[c].age = 0
    BY <1>2, ConstantFacts
  <1>3. CASE srv'.states[c].age # 0
    <2>1. srv.states[c].up # 0 /\ ~srv.states[c].connected /\ srv.states[c].age = srv'.states[c].age
      BY <1>1, <1>3 DEF NoOlder
    <2> QED
      BY <1>1, <2>1 DEF ConnectSwept, Exchanges
  <1> QED
    BY <1>2, <1>3

\* A second passes, and only when the sweep of the last one has been made.
LEMMA TickIInv ==
  ASSUME IInv, Tick
  PROVE  IInv'
  <1> DEFINE x == [c \in Fds |-> [srv.states[c] EXCEPT !.age =
                     IF Waiting(srv, c) THEN Older(srv.states[c].age, ProxyTimeout) ELSE 0]]
             n == [u \in Fds |-> IF u \in srv.pooled THEN Older(srv.idle[u], PoolIdle + 1) ELSE 0]
             p == PoolSecond(srv.pool)
  <1>1. ServerInv(srv) /\ srv \in Servers /\ srv.states \in StateTables /\ srv.pool \in Pools
        /\ srv.idle \in [Fds -> 0..(PoolIdle + 1)]
    BY ServerFields DEF IInv, ServerInv
  <1>2. p \in Pools /\ p.active = srv.pool.active
    BY <1>1, PoolStepsTyped, PoolCounts
  <1>3. \A c \in Fds : x[c] \in ProxyState /\ x[c].up = srv.states[c].up
          /\ x[c].target = srv.states[c].target /\ x[c].connected = srv.states[c].connected
          /\ x[c].age <= srv.states[c].age + 1
    <2>1. TAKE c \in Fds
    <2>2. srv.states[c] \in ProxyState /\ srv.states[c].age \in 0..ProxyTimeout
      BY <1>1 DEF StateTables, ProxyState
    <2>3. PICK a \in 0..ProxyTimeout :
            /\ a = IF Waiting(srv, c) THEN Older(srv.states[c].age, ProxyTimeout) ELSE 0
            /\ a <= srv.states[c].age + 1
      <3>1. Older(srv.states[c].age, ProxyTimeout) \in 0..ProxyTimeout
            /\ Older(srv.states[c].age, ProxyTimeout) <= srv.states[c].age + 1
        BY <2>2, ConstantFacts DEF Older
      <3>2. 0 \in 0..ProxyTimeout /\ 0 <= srv.states[c].age + 1
        BY <2>2, ConstantFacts
      <3> QED
        BY <3>1, <3>2
    <2>4. x[c] = [srv.states[c] EXCEPT !.age = a]
      BY <2>3
    <2> HIDE DEF x
    <2> QED
      BY <2>2, <2>3, <2>4 DEF ProxyState
  <1>4. n \in [Fds -> 0..(PoolIdle + 1)]
    BY <1>1, ConstantFacts DEF Older
  <1>5. srv' = [srv EXCEPT !.states = x, !.idle = n, !.pool = p]
    BY DEF Tick
  <1>6. x \in StateTables
    <2>1. x = [c \in Fds |-> x[c]]
      OBVIOUS
    <2> QED
      BY <1>3, <2>1 DEF StateTables
  <1> HIDE DEF x, n, p
  <1>7. srv' \in Servers
    BY <1>1, <1>2, <1>4, <1>5, <1>6 DEF Servers, StateTables
  <1>8. /\ srv'.tab = srv.tab /\ srv'.states = x /\ srv'.tocli = srv.tocli
        /\ srv'.pooled = srv.pooled /\ srv'.sock = srv.sock /\ srv'.over = srv.over /\ srv'.pool = p
    BY <1>1, <1>5 DEF Servers
  <1>9. ServerInv(srv')
    <2>1. Linked(srv.tab.open, x, srv.tocli, srv.pooled, srv.sock, srv.over)
      <3>1. \A u \in Fds : srv.tocli[u] # 0 => srv.tocli[u] \in Fds
        BY <1>1, ServerFields DEF ClientMaps
      <3> QED
        BY <1>1, <1>3, <3>1 DEF ServerInv, Linked
    <2>2. CountedIn(p.active, srv.pooled, srv.sock)
      BY <1>1, <1>2 DEF ServerInv
    <2> QED
      BY <1>1, <1>7, <1>8, <2>1, <2>2 DEF ServerInv
  <1>10. phase = "events" /\ swept' = FALSE /\ n_stale' = 0 /\ phase' = phase /\ todo' = todo
    BY DEF Tick
  <1>11. ConnectSwept'
    BY <1>10 DEF ConnectSwept
  <1> QED
    BY <1>9, <1>10, <1>11 DEF IInv

\* The sweep collects all that are due, or as many as it may.
LEMMA SweepStartIInv ==
  ASSUME IInv, SweepStart
  PROVE  IInv'
  <1>1. ServerInv(srv) /\ srv' = [srv EXCEPT !.stale = {}]
    BY DEF IInv, SweepStart
  <1>2. Kept(srv, srv') /\ srv'.states = srv.states
    BY <1>1, SetsKept
  <1>3. ServerInv(srv') /\ swept' = swept /\ swept \in BOOLEAN /\ phase' = "proxy"
    BY <1>2 DEF Kept, SweepStart, IInv
  <1>4. ConnectSwept'
    BY <1>3 DEF ConnectSwept
  <1>5. PICK D \in SUBSET Due(srv) :
          /\ D = Due(srv) \/ Cardinality(D) = ProxySweepMax
          /\ todo' = D /\ n_stale' = Cardinality(D)
    BY DEF SweepStart
  <1>6. Due(srv) \in SUBSET Fds
    BY DEF Due, Exchanges
  <1>7. todo' \in SUBSET Fds /\ n_stale' \in Nat
    BY <1>5, <1>6, FdSetsFinite
  <1>8. Due(srv') = Due(srv)
    BY <1>2 DEF Due, Exchanges
  <1> QED
    BY <1>3, <1>4, <1>5, <1>7, <1>8 DEF IInv

\* proxy_timeout_sweep ends one of the exchanges it has collected.
LEMMA SweepOneIInv ==
  ASSUME IInv, NEW c \in Fds, SweepOne(c)
  PROVE  IInv'
  <1>1. ServerInv(srv) /\ phase = "proxy" /\ todo' = todo \ {c} /\ phase' = phase
        /\ UNCHANGED <<swept, n_stale>>
    BY DEF IInv, SweepOne
  <1>2. /\ Kept(srv, srv') /\ srv'.states[c].up = 0
        /\ OtherwiseSame(Fds, c, srv.states, srv'.states)
    <2>1. CASE srv.states[c].up # 0
      <3>1. srv' = ConnectFailed(srv, c)
        BY <2>1 DEF SweepOne
      <3>2. /\ Kept(srv, srv') /\ srv'.states[c] = NoState
            /\ OtherwiseSame(Fds, c, srv.states, srv'.states)
        BY <1>1, <2>1, <3>1, ConnectFailedKept
      <3> QED
        BY <3>2 DEF NoState
    <2>2. CASE srv.states[c].up = 0
      <3>1. srv' = srv
        BY <2>2 DEF SweepOne
      <3> QED
        BY <1>1, <2>2, <3>1, KeptSame DEF OtherwiseSame
    <2> QED
      BY <2>1, <2>2
  <1>3. ServerInv(srv') /\ NoOlder(srv.states, srv'.states)
    BY <1>2 DEF Kept
  <1>4. ConnectSwept'
    BY <1>1 DEF ConnectSwept
  <1>5. Due(srv') \subseteq Due(srv) \ {c}
    BY <1>2 DEF Due, Exchanges, OtherwiseSame
  <1> QED
    BY <1>1, <1>3, <1>4, <1>5 DEF IInv

\* The end of the sweep: what was collected has been ended.
LEMMA SweepEndIInv ==
  ASSUME IInv, SweepEnd
  PROVE  IInv'
  <1>1. ServerInv(srv) /\ phase = "proxy" /\ todo = {} /\ todo' = todo
        /\ phase' = "events" /\ swept' = TRUE /\ n_stale' = n_stale
    BY DEF IInv, SweepEnd
  <1>2. PICK C \in SUBSET Unproxied(srv) : srv' = keepalive_pool_sweep(DropClients(srv, C))
    BY DEF SweepEnd
  <1> DEFINE A == DropClients(srv, C)
  <1>3. C \in SUBSET Fds
    BY <1>1, ServerFields DEF ServerInv, Unproxied
  <1>4. Kept(srv, A) /\ A.states = srv.states
    BY <1>1, <1>3, DropClientsKept
  <1> HIDE DEF A
  <1>5. ServerInv(A) /\ srv' = CloseSockets(A, Overdue(A)) /\ Overdue(A) \in SUBSET A.pooled
    BY <1>2, <1>4 DEF Kept, keepalive_pool_sweep, Overdue, A
  <1>6. Kept(A, srv') /\ srv'.states = A.states
    BY <1>5, CloseIdleKept
  <1>7. ServerInv(srv') /\ srv'.states = srv.states
    BY <1>4, <1>6 DEF Kept
  <1>8. ConnectSwept'
    <2>1. SUFFICES ASSUME n_stale # ProxySweepMax, NEW c \in Fds, srv.states[c].up # 0,
                          ~srv.states[c].connected
                   PROVE  srv.states[c].age < ProxyTimeout
      BY <1>1, <1>7 DEF ConnectSwept, Exchanges
    <2>2. srv.states[c].age \in 0..ProxyTimeout
      BY <1>1, ServerFields DEF ServerInv, StateTables, ProxyState
    <2>3. ~(srv.states[c].age >= ProxyTimeout)
      BY <1>1, <2>1 DEF IInv, Due, Exchanges
    <2> QED
      BY <2>2, <2>3, ConstantFacts
  <1> QED
    BY <1>1, <1>7, <1>8 DEF IInv

\* Every step keeps the inductive invariant.
LEMMA StepIInv == IInv /\ [Next]_vars => IInv'
  <1> SUFFICES ASSUME IInv, [Next]_vars PROVE IInv'
    OBVIOUS
  <1>1. CASE Event
    <2>1. ServerInv(srv)
      BY DEF IInv
    <2>2. Kept(srv, srv') /\ phase = "events" /\ UNCHANGED <<phase, todo, swept, n_stale>>
      BY <1>1, <2>1, EventKept
    <2>3. ServerInv(srv') /\ NoOlder(srv.states, srv'.states)
      BY <2>2 DEF Kept
    <2>4. ConnectSwept'
      BY <2>1, <2>2, <2>3, SweptKept DEF IInv
    <2> QED
      BY <2>2, <2>3, <2>4 DEF IInv
  <1>2. CASE Tick
    BY <1>2, TickIInv
  <1>3. CASE SweepStart
    BY <1>3, SweepStartIInv
  <1>4. ASSUME NEW c \in Fds, SweepOne(c) PROVE IInv'
    BY <1>4, SweepOneIInv
  <1>5. CASE SweepEnd
    BY <1>5, SweepEndIInv
  <1>6. CASE UNCHANGED vars
    BY <1>6 DEF vars, IInv, ConnectSwept, Due, Exchanges
  <1> QED
    BY <1>1, <1>2, <1>3, <1>4, <1>5, <1>6 DEF Next

-----------------------------------------------------------------------------
(* The theorems.                                                             *)

\* The maps, the sockets and the counters agree in every state the server reaches,
\* whatever the clients, the upstreams and the clock do.
THEOREM Invariance == Spec => []IInv
  BY InitIInv, StepIInv, PTL DEF Spec

\* The maps, the pools and the loop's variables always have their types.
THEOREM ServerTyped == Spec => []TypeOK
  <1>1. IInv => TypeOK
    BY DEF IInv, ServerInv, TypeOK
  <1> QED
    BY <1>1, Invariance, PTL

\* proxy_states, upstream_fd_to_client, the idle pools and the open sockets always
\* agree: an open socket is idle and leads to no client, or leads to the one exchange
\* that has it, unless that exchange was overwritten, although numbers are reused and
\* exchanges outlive their clients.
THEOREM AlwaysRouted == Spec => []Routed
  <1>1. IInv => Routed
    <2> SUFFICES ASSUME IInv PROVE Routed
      OBVIOUS
    <2>1. Linked(srv.tab.open, srv.states, srv.tocli, srv.pooled, srv.sock, srv.over)
          /\ srv.pooled \in SUBSET Fds
      BY ServerFields DEF IInv, ServerInv
    <2>2. srv.tab.open \cap Sockets(srv) = {} /\ srv.pooled \subseteq Sockets(srv)
      BY <2>1 DEF Linked, Sockets
    <2>3. \A u \in Sockets(srv) : u \in srv.pooled <=> srv.tocli[u] = 0
      BY <2>1 DEF Linked, Sockets
    <2>4. \A u \in Fds : srv.tocli[u] # 0 =>
            u \in Sockets(srv) /\ (u \notin srv.over => srv.states[srv.tocli[u]].up = u)
      BY <2>1 DEF Linked, Sockets
    <2>5. \A c \in Exchanges(srv) :
            /\ srv.sock[srv.states[c].up] = srv.states[c].target
            /\ srv.tocli[srv.states[c].up] = c
      BY <2>1 DEF Linked, Exchanges
    <2> QED
      BY <2>2, <2>3, <2>4, <2>5 DEF Routed
  <1> QED
    BY <1>1, Invariance, PTL

\* active_connections of every http:// target is always the number of its sockets
\* that are open and not idle: no path of proxy_handler, proxy_cleanup or the sweeps
\* counts a connection twice or forgets one.
THEOREM ActiveAlwaysExact == Spec => []ActiveExact
  <1>1. IInv => ActiveExact
    BY DEF IInv, ServerInv, CountedIn, InUse, ActiveExact
  <1> QED
    BY <1>1, Invariance, PTL

\* A connecting exchange survives the sweep of the second in which it reaches
\* proxy_timeout only when that sweep has ended its quota of others, for every quota.
THEOREM ConnectsAlwaysSwept == Spec => []ConnectSwept
  <1>1. IInv => ConnectSwept
    BY DEF IInv
  <1> QED
    BY <1>1, Invariance, PTL
=============================================================================
