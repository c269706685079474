--------------------------- MODULE ConnTableProofs ---------------------------
(* Proofs about the connection table, for every value of the constants.       *)
EXTENDS ConnTable, FiniteSetTheorems, WellFoundedInduction, TLAPS

(* What every table operation preserves.                                       *)
WithinLimit(T) == MaxPerIp > 0 => \A p \in Ips : T.ip_conn_counts[p] <= MaxPerIp

TableInv(T) ==
  /\ T \in Tables
  /\ Consistent(T)
  /\ CountsExact(T)
  /\ WithinLimit(T)

\* Sets of slots are finite, so that slots can be counted.
LEMMA SlotSetsFinite ==
  ASSUME NEW S \in SUBSET Slots
  PROVE  IsFiniteSet(S) /\ Cardinality(S) \in Nat
  <1>1. IsFiniteSet(Slots)
    BY TableAssumption, FS_Interval DEF Slots
  <1>2. IsFiniteSet(S)
    BY <1>1, FS_Subset
  <1> QED
    BY <1>2, FS_CardinalityType

\* Every set of slots has a least one.
LEMMA LeastSlot ==
  ASSUME NEW S \in SUBSET Slots, S # {}
  PROVE  \E i \in S : \A j \in S : i <= j
  <1>1. S \in SUBSET Nat
    BY TableAssumption DEF Slots
  <1> DEFINE R == OpToRel(<, Nat)
  <1>2. IsWellFoundedOn(R, Nat)
    BY NatLessThanWellFounded
  <1>3. \A i, j \in Nat : <<j, i>> \in R <=> j < i
    BY DEF OpToRel
  <1> HIDE DEF R
  <1>4. PICK i \in S : \A j \in S : ~(<<j, i>> \in R)
    BY <1>1, <1>2, WFMin
  <1>5. \A j \in S : ~(j < i) /\ i \in Nat /\ j \in Nat
    BY <1>1, <1>3, <1>4
  <1>6. \A j \in S : i <= j
    BY <1>5
  <1> QED
    BY <1>4, <1>6

\* The search of conn_add for a slot with fd = 0 finds one when there is one.
LEMMA FirstFreeIsFree ==
  ASSUME NEW T, FreeSlots(T) # {}
  PROVE  FirstFree(T) \in FreeSlots(T)
  <1>1. FreeSlots(T) \in SUBSET Slots
    BY DEF FreeSlots
  <1>2. \E i \in FreeSlots(T) : \A j \in FreeSlots(T) : i <= j
    BY <1>1, LeastSlot
  <1> QED
    BY <1>2 DEF FirstFree

\* Every update of a slot by conn_add, conn_del, a handler or the clock is a slot.
LEMMA SlotUpdatesTyped ==
  ASSUME NEW c \in ClientData
  PROVE  /\ Vacated(c) \in ClientData /\ Vacated(c).fd = 0
         /\ \A f \in Fds : NewClient(c, f) \in ClientData /\ NewClient(c, f).fd = f
                                               /\ NewClient(c, f).peer = NoIp
         /\ \A s \in ParserStates, b \in BOOLEAN :
              /\ [c EXCEPT !.state = s, !.idle = 0] \in ClientData
              /\ [c EXCEPT !.state = s, !.ka = b, !.idle = 0, !.served = TRUE] \in ClientData
         /\ \A b \in BOOLEAN : /\ [c EXCEPT !.sending = b] \in ClientData
                               /\ [c EXCEPT !.forward_active = b] \in ClientData
                               /\ [c EXCEPT !.forward_active = b, !.idle = 0] \in ClientData
         /\ [c EXCEPT !.idle = 0] \in ClientData
         /\ http_parser_reset(c) \in ClientData
         /\ [c EXCEPT !.age = Older(@), !.idle = Older(@)] \in ClientData
         /\ \A p \in Peers, b \in BOOLEAN :
              [c EXCEPT !.peer = p, !.is_http = b] \in ClientData
  <1>1. 0 \in 0..AgeCap /\ "start" \in ParserStates /\ NoIp \in Peers
        /\ \A n \in 0..AgeCap : Older(n) \in 0..AgeCap
    BY TableAssumption, TimeAssumption DEF ParserStates, Peers, Older
  <1> QED
    BY <1>1 DEF ClientData, Vacated, NewClient, http_parser_reset

\* A handler that changes neither the descriptor nor the peer of a slot, nor the
\* map and the counters, and opens nothing, preserves the table's invariant:
\* reads, partial sends, the passing of time, forward_on_accept.
LEMMA SlotDetailsPreserve ==
  ASSUME NEW T, TableInv(T), NEW U \in Tables,
         U.fd_to_index = T.fd_to_index, U.ip_conn_counts = T.ip_conn_counts,
         U.open \subseteq T.open,
         \A i \in Slots : /\ U.clients[i].fd = T.clients[i].fd
                          /\ U.clients[i].peer = T.clients[i].peer
  PROVE  TableInv(U)
  <1>1. Mapped(U) = Mapped(T)
    BY DEF Mapped, get_conn
  <1>2. \A f \in Mapped(T) : get_conn(U, f) = get_conn(T, f) /\ get_conn(T, f) \in Slots
    BY DEF Mapped, get_conn, TableInv, Tables
  <1>3. Consistent(U)
    BY <1>1, <1>2 DEF TableInv, Consistent
  <1>4. \A p \in Ips : Holding(U, p) = Holding(T, p)
    BY DEF Holding
  <1>5. CountsExact(U) /\ WithinLimit(U)
    BY <1>4 DEF TableInv, CountsExact, WithinLimit
  <1> QED
    BY <1>3, <1>5 DEF TableInv

\* conn_del of any set of descriptors keeps map, slots and counters in step.
LEMMA ConnDelPreserves ==
  ASSUME NEW T, TableInv(T), NEW F \in SUBSET Fds
  PROVE  TableInv(conn_del(T, F))
  <1> DEFINE U == conn_del(T, F)
             D == Deleted(T, F)
  <1>0. T \in Tables
    BY DEF TableInv
  <1>1. D \in SUBSET Slots
    BY <1>0 DEF Deleted, Mapped, get_conn, Tables
  <1>2. \A p \in Ips : /\ {i \in D : T.clients[i].peer = p} \in SUBSET Slots
                       /\ Cardinality({i \in D : T.clients[i].peer = p}) \in Nat
    BY <1>1, SlotSetsFinite
  <1>3. \A i \in Slots : T.clients[i] \in ClientData
    BY <1>0 DEF Tables
  <1>4. \A c \in ClientData : Vacated(c) \in ClientData /\ Vacated(c).fd = 0
    BY SlotUpdatesTyped
  <1>5. U \in Tables
    <2>1. U.clients \in [Slots -> ClientData]
      BY <1>3, <1>4 DEF conn_del
    <2>2. U.fd_to_index \in [Fds -> Slots \cup {-1}]
      BY <1>0 DEF conn_del, get_conn, Tables
    <2>3. U.ip_conn_counts \in [Ips -> Nat]
      <3>1. \A p \in Ips : T.ip_conn_counts[p] \in Nat
        BY <1>0 DEF Tables
      <3>2. \A p \in Ips : Decremented(T, p, D) \in Nat
        BY <3>1, <1>2 DEF Decremented
      <3> QED
        BY <3>2 DEF conn_del
    <2>4. U.open \in SUBSET Fds
      BY <1>0 DEF conn_del, Tables
    <2> QED
      BY <2>1, <2>2, <2>3, <2>4 DEF conn_del, Tables
  <1>6. \A f \in Mapped(U) : /\ f \in Mapped(T) /\ f \notin F
                             /\ get_conn(U, f) = get_conn(T, f)
    BY DEF Mapped, get_conn, conn_del
  <1>7. \A f \in Mapped(T) : get_conn(T, f) \in Slots /\ T.clients[get_conn(T, f)].fd = f
    BY <1>0 DEF TableInv, Consistent, Mapped, get_conn, Tables
  <1>8. \A f \in Mapped(U) : get_conn(T, f) \notin D
    BY <1>6, <1>7 DEF Deleted
  <1>9. Consistent(U)
    <2>1. \A f \in Mapped(U) : U.clients[get_conn(U, f)].fd = f
      BY <1>6, <1>7, <1>8 DEF conn_del
    <2>2. U.open \subseteq Mapped(U)
      <3> SUFFICES ASSUME NEW f \in U.open
                   PROVE  f \in Mapped(U)
        OBVIOUS
      <3>1. f \in T.open /\ f \in Mapped(T) /\ f \notin F
        BY DEF conn_del, TableInv, Consistent
      <3> QED
        BY <3>1 DEF Mapped, get_conn, conn_del
    <2> QED
      BY <2>1, <2>2 DEF Consistent
  <1>10. \A i \in D : T.clients[i].fd # 0
    <2>1. \A f \in Fds : f # 0
      BY TableAssumption DEF Fds
    <2> QED
      BY <2>1, <1>7 DEF Deleted, Mapped
  <1>11. \A p \in Ips : U.ip_conn_counts[p] = IF MaxPerIp > 0 THEN Cardinality(Holding(U, p)) ELSE 0
    <2> SUFFICES ASSUME NEW p \in Ips
                 PROVE  U.ip_conn_counts[p] = IF MaxPerIp > 0 THEN Cardinality(Holding(U, p)) ELSE 0
      OBVIOUS
    <2> DEFINE H == Holding(T, p)
               P == {i \in D : T.clients[i].peer = p}
    <2>1. H \in SUBSET Slots /\ IsFiniteSet(H) /\ Cardinality(H) \in Nat
      BY SlotSetsFinite DEF Holding
    <2>2. P = H \cap P
      BY <1>1, <1>10 DEF Holding
    <2>3. Holding(U, p) = H \ P
      BY <1>1, <1>3, <1>4 DEF Holding, conn_del
    <2>4. Cardinality(Holding(U, p)) = Cardinality(H) - Cardinality(P)
      BY <2>1, <2>2, <2>3, FS_Difference
    <2>5. Cardinality(P) \in Nat /\ Cardinality(P) <= Cardinality(H)
      BY <2>1, <2>2, <1>2, FS_Subset
    <2>6. T.ip_conn_counts[p] = IF MaxPerIp > 0 THEN Cardinality(H) ELSE 0
      BY DEF TableInv, CountsExact
    <2>7. U.ip_conn_counts[p] = Decremented(T, p, D)
      BY DEF conn_del
    <2> QED
      BY <2>1, <2>4, <2>5, <2>6, <2>7 DEF Decremented
  <1>12. WithinLimit(U)
    <2>1. \A p \in Ips : U.ip_conn_counts[p] <= T.ip_conn_counts[p]
      <3>1. \A p \in Ips : T.ip_conn_counts[p] \in Nat
        BY <1>0 DEF Tables
      <3>2. \A p \in Ips : Decremented(T, p, D) <= T.ip_conn_counts[p]
        BY <3>1, <1>2 DEF Decremented
      <3> QED
        BY <3>2 DEF conn_del
    <2>2. \A p \in Ips : U.ip_conn_counts[p] \in Nat /\ T.ip_conn_counts[p] \in Nat
      BY <1>0, <1>5 DEF Tables
    <2> QED
      BY <2>1, <2>2, TableAssumption DEF TableInv, WithinLimit
  <1> QED
    BY <1>5, <1>9, <1>11, <1>12 DEF TableInv, CountsExact

\* The table after conn_add of a descriptor that accept() has just returned: the
\* new slot belongs to no address yet, so every counter is still exact.
LEMMA ConnAddPreserves ==
  ASSUME NEW T, TableInv(T), NEW f \in Fds \ T.open, FreeSlots(T) # {}
  PROVE  LET A == conn_add([T EXCEPT !.open = @ \cup {f}], f)
         IN  /\ TableInv(A)
             /\ f \in Mapped(A)
             /\ Conn(A, f).fd = f /\ Conn(A, f).peer = NoIp
             /\ A.ip_conn_counts = T.ip_conn_counts
  <1> DEFINE B == [T EXCEPT !.open = @ \cup {f}]
             A == conn_add(B, f)
             i == FirstFree(B)
  <1>0. T \in Tables /\ f \in Fds
    BY DEF TableInv
  <1>1. B \in Tables /\ B.clients = T.clients /\ B.fd_to_index = T.fd_to_index
        /\ B.ip_conn_counts = T.ip_conn_counts /\ B.open = T.open \cup {f}
    BY <1>0 DEF Tables
  <1>2. i \in Slots /\ T.clients[i].fd = 0
    BY <1>1, FirstFreeIsFree DEF FreeSlots
  <1>3. T.clients[i] \in ClientData
    BY <1>0, <1>2 DEF Tables
  <1>4. /\ A.clients = [T.clients EXCEPT ![i] = NewClient(T.clients[i], f)]
        /\ A.fd_to_index = [T.fd_to_index EXCEPT ![f] = i]
        /\ A.ip_conn_counts = T.ip_conn_counts
        /\ A.open = T.open \cup {f}
    <2> HIDE DEF B, i
    <2> QED
      BY <1>1 DEF conn_add, Tables, i
  <1>5. A \in Tables
    <2>1. A = [B EXCEPT !.clients[i] = NewClient(B.clients[i], f), !.fd_to_index[f] = i]
      BY DEF conn_add
    <2>2. NewClient(T.clients[i], f) \in ClientData
      BY <1>0, <1>3, SlotUpdatesTyped
    <2> HIDE DEF A, B, i
    <2> QED
      BY <2>1, <2>2, <1>0, <1>1, <1>2 DEF Tables
  <1> HIDE DEF A, B, i
  <1>6. NewClient(T.clients[i], f).fd = f /\ NewClient(T.clients[i], f).peer = NoIp
    BY <1>0, <1>3, SlotUpdatesTyped
  <1>7. /\ A.fd_to_index[f] = i /\ A.clients[i].fd = f /\ A.clients[i].peer = NoIp
        /\ \A g \in Fds : g # f => A.fd_to_index[g] = T.fd_to_index[g]
        /\ \A j \in Slots : j # i => A.clients[j] = T.clients[j]
    BY <1>0, <1>2, <1>4, <1>6 DEF Tables
  <1>8. i # -1 /\ f # 0
    BY <1>0, <1>2, TableAssumption DEF Slots, Fds
  <1>9. Mapped(A) = Mapped(T) \cup {f}
    BY <1>0, <1>7, <1>8 DEF Mapped, get_conn
  <1>10. \A g \in Mapped(T) : get_conn(T, g) \in Slots /\ T.clients[get_conn(T, g)].fd = g /\ g # 0
    BY <1>0, TableAssumption DEF TableInv, Consistent, Mapped, get_conn, Tables, Fds
  <1>11. Consistent(A)
    <2>1. \A g \in Mapped(A) : A.clients[get_conn(A, g)].fd = g
      <3> SUFFICES ASSUME NEW g \in Mapped(A)
                   PROVE  A.clients[get_conn(A, g)].fd = g
        OBVIOUS
      <3>1. CASE g = f
        BY <3>1, <1>7 DEF get_conn
      <3>2. CASE g # f
        <4>1. g \in Mapped(T) /\ get_conn(A, g) = get_conn(T, g)
          BY <3>2, <1>7, <1>9 DEF get_conn, Mapped
        <4> QED
          BY <4>1, <1>2, <1>7, <1>10
      <3> QED
        BY <3>1, <3>2
    <2>2. A.open \subseteq Mapped(A)
      BY <1>4, <1>9 DEF TableInv, Consistent
    <2> QED
      BY <2>1, <2>2 DEF Consistent
  <1>12. \A p \in Ips : Holding(A, p) = Holding(T, p)
    BY <1>2, <1>7, TableAssumption DEF Holding
  <1>13. CountsExact(A) /\ WithinLimit(A)
    BY <1>4, <1>12 DEF TableInv, CountsExact, WithinLimit
  <1>14. TableInv(A) /\ f \in Mapped(A) /\ Conn(A, f).fd = f /\ Conn(A, f).peer = NoIp
         /\ A.ip_conn_counts = T.ip_conn_counts
    BY <1>4, <1>5, <1>7, <1>9, <1>11, <1>13 DEF TableInv, Conn, get_conn
  <1> QED
    BY <1>14 DEF A, B

\* Counting the connection and storing its peer in one step keeps the counters
\* exact, and below the limit when the limit was not reached before.
LEMMA RegisteredPreserves ==
  ASSUME NEW T, TableInv(T), NEW f \in Mapped(T), Conn(T, f).peer = NoIp,
         NEW p \in Peers, NEW l, ~AtLimit(T, p)
  PROVE  TableInv(Registered(T, f, p, l)) /\ f \in Mapped(Registered(T, f, p, l))
  <1> DEFINE i == get_conn(T, f)
             c == [Conn(T, f) EXCEPT !.peer = p, !.is_http = (l = "http")]
             U == Registered(T, f, p, l)
  <1>0. T \in Tables /\ f \in Fds /\ i \in Slots /\ T.clients[i].fd = f
        /\ T.clients[i] = Conn(T, f) /\ T.clients[i] \in ClientData
    BY DEF TableInv, Tables, Mapped, get_conn, Consistent, Conn
  <1>1. c \in ClientData /\ c.fd = f /\ c.peer = p
    <2>1. (l = "http") \in BOOLEAN
      OBVIOUS
    <2>2. c \in ClientData
      BY <1>0, <2>1, SlotUpdatesTyped
    <2>3. c.fd = f /\ c.peer = p
      BY <1>0 DEF ClientData
    <2> QED
      BY <2>2, <2>3
  <1>2. /\ U.clients = [T.clients EXCEPT ![i] = c]
        /\ U.fd_to_index = T.fd_to_index
        /\ U.open = T.open
        /\ U.ip_conn_counts = IF Counted(p) THEN [T.ip_conn_counts EXCEPT ![p] = @ + 1]
                              ELSE T.ip_conn_counts
    BY <1>0 DEF Registered, WithConn, Tables
  <1>3. Counted(p) => p \in Ips
    BY DEF Counted, Peers
  <1>4. U \in Tables
    <2>1. WithConn(T, f, c) \in Tables
      <3> HIDE DEF c, i
      <3> QED
        BY <1>0, <1>1 DEF WithConn, Tables, i
    <2>2. (IF Counted(p) THEN [T.ip_conn_counts EXCEPT ![p] = @ + 1] ELSE T.ip_conn_counts)
            \in [Ips -> Nat]
      BY <1>0, <1>3 DEF Tables
    <2> HIDE DEF c
    <2>3. U = [WithConn(T, f, c) EXCEPT !.ip_conn_counts =
                 IF Counted(p) THEN [T.ip_conn_counts EXCEPT ![p] = @ + 1] ELSE T.ip_conn_counts]
      BY DEF Registered, c
    <2> QED
      BY <2>1, <2>2, <2>3 DEF Tables
  <1> HIDE DEF U, c, i
  <1>5. \A j \in Slots : U.clients[j] = IF j = i THEN c ELSE T.clients[j]
    BY <1>0, <1>2 DEF Tables
  <1>6. Mapped(U) = Mapped(T) /\ \A g \in Fds : get_conn(U, g) = get_conn(T, g)
    BY <1>2 DEF Mapped, get_conn
  <1>7. Consistent(U)
    <2>1. \A g \in Mapped(T) : get_conn(T, g) \in Slots /\ T.clients[get_conn(T, g)].fd = g
      BY <1>0 DEF TableInv, Consistent, Mapped, get_conn, Tables
    <2>2. \A j \in Slots : U.clients[j].fd = T.clients[j].fd
      BY <1>0, <1>1, <1>5
    <2>3. Mapped(T) \subseteq Fds
      BY DEF Mapped
    <2> QED
      BY <1>2, <1>6, <2>1, <2>2, <2>3 DEF TableInv, Consistent
  <1>8. ASSUME NEW q \in Ips
        PROVE  U.ip_conn_counts[q] = IF MaxPerIp > 0 THEN Cardinality(Holding(U, q)) ELSE 0
    <2>0. Holding(T, q) \in SUBSET Slots /\ IsFiniteSet(Holding(T, q))
          /\ Cardinality(Holding(T, q)) \in Nat
      BY SlotSetsFinite DEF Holding
    <2>1. T.ip_conn_counts[q] = IF MaxPerIp > 0 THEN Cardinality(Holding(T, q)) ELSE 0
      BY DEF TableInv, CountsExact
    <2>2. f # 0
      BY <1>0, TableAssumption DEF Fds
    <2>3. CASE q = p
      <3>1. Holding(U, q) = Holding(T, q) \cup {i}
        BY <1>0, <1>1, <1>5, <2>2, <2>3 DEF Holding
      <3>2. i \notin Holding(T, q)
        BY <1>0, TableAssumption DEF Holding
      <3>3. Cardinality(Holding(U, q)) = Cardinality(Holding(T, q)) + 1
        BY <2>0, <3>1, <3>2, FS_AddElement
      <3>4. q # NoIp
        BY TableAssumption
      <3>5. U.ip_conn_counts[q] = IF MaxPerIp > 0 THEN T.ip_conn_counts[q] + 1 ELSE T.ip_conn_counts[q]
        BY <1>0, <1>2, <2>3, <3>4 DEF Counted, Tables
      <3> QED
        BY <2>1, <3>3, <3>5
    <2>4. CASE q # p
      <3>1. Holding(U, q) = Holding(T, q)
        BY <1>0, <1>1, <1>5, <2>4, TableAssumption DEF Holding
      <3>2. U.ip_conn_counts[q] = T.ip_conn_counts[q]
        BY <1>0, <1>2, <1>3, <2>4 DEF Tables
      <3> QED
        BY <2>1, <3>1, <3>2
    <2> QED
      BY <2>3, <2>4
  <1>9. WithinLimit(U)
    <2> SUFFICES ASSUME MaxPerIp > 0, NEW q \in Ips
                 PROVE  U.ip_conn_counts[q] <= MaxPerIp
      BY DEF WithinLimit
    <2>1. T.ip_conn_counts[q] \in Nat /\ T.ip_conn_counts[q] <= MaxPerIp
      BY <1>0 DEF TableInv, WithinLimit, Tables
    <2>2. CASE q = p
      <3>1. q # NoIp
        BY TableAssumption
      <3>2. ~(T.ip_conn_counts[q] >= MaxPerIp)
        BY <2>2, <3>1 DEF AtLimit, Counted
      <3>3. U.ip_conn_counts[q] = T.ip_conn_counts[q] + 1
        BY <1>0, <1>2, <2>2, <3>1 DEF Counted, Tables
      <3> QED
        BY <2>1, <3>2, <3>3, TableAssumption
    <2>3. CASE q # p
      <3>1. U.ip_conn_counts[q] = T.ip_conn_counts[q]
        BY <1>0, <1>2, <1>3, <2>3 DEF Tables
      <3> QED
        BY <2>1, <3>1
    <2> QED
      BY <2>2, <2>3
  <1>10. TableInv(U) /\ f \in Mapped(U)
    BY <1>4, <1>6, <1>7, <1>8, <1>9 DEF TableInv, CountsExact
  <1> QED
    BY <1>10 DEF U

\* Rewriting the details of one connected slot preserves the table's invariant.
LEMMA WithConnPreserves ==
  ASSUME NEW T, TableInv(T), NEW f \in Mapped(T), NEW c \in ClientData,
         c.fd = Conn(T, f).fd, c.peer = Conn(T, f).peer
  PROVE  TableInv(WithConn(T, f, c)) /\ Mapped(WithConn(T, f, c)) = Mapped(T)
  <1> DEFINE U == WithConn(T, f, c)
             i == get_conn(T, f)
  <1>0. T \in Tables /\ i \in Slots /\ T.clients[i] = Conn(T, f)
    BY DEF TableInv, Tables, Mapped, get_conn, Conn
  <1>1. /\ U.clients = [T.clients EXCEPT ![i] = c]
        /\ U.fd_to_index = T.fd_to_index
        /\ U.open = T.open
        /\ U.ip_conn_counts = T.ip_conn_counts
    BY <1>0 DEF WithConn, Tables
  <1>2. U \in Tables
    <2> HIDE DEF i
    <2> QED
      BY <1>0 DEF WithConn, Tables, i
  <1> HIDE DEF U, i
  <1>3. \A j \in Slots : U.clients[j].fd = T.clients[j].fd /\ U.clients[j].peer = T.clients[j].peer
    BY <1>0, <1>1 DEF Tables
  <1>4. TableInv(U)
    BY <1>1, <1>2, <1>3, SlotDetailsPreserve
  <1>5. Mapped(U) = Mapped(T)
    BY <1>1 DEF Mapped, get_conn
  <1> QED
    BY <1>4, <1>5 DEF U

\* A connected slot is a slot, and its descriptor is the one it was found by.
LEMMA ConnTyped ==
  ASSUME NEW T, TableInv(T), NEW f \in Mapped(T)
  PROVE  Conn(T, f) \in ClientData /\ Conn(T, f).fd = f /\ f \in Fds
  BY DEF TableInv, Tables, Consistent, Mapped, get_conn, Conn

\* Whatever comes of an accept (table full, address at its limit, failed set-up,
\* unreachable forward target, success), the table's invariant holds after it.
LEMMA AcceptedPreserves ==
  ASSUME NEW T, TableInv(T), NEW f \in Fds \ T.open, NEW p \in Peers, NEW l,
         NEW setup \in BOOLEAN, NEW reachable \in BOOLEAN
  PROVE  TableInv(Accepted(T, f, p, l, setup, reachable))
  <1> DEFINE A == conn_add([T EXCEPT !.open = @ \cup {f}], f)
             R == Registered(A, f, p, l)
  <1>1. CASE FreeSlots(T) = {}
    BY <1>1 DEF Accepted
  <1>2. CASE FreeSlots(T) # {}
    <2>1. TableInv(A) /\ f \in Mapped(A) /\ Conn(A, f).peer = NoIp
          /\ A.ip_conn_counts = T.ip_conn_counts
      BY <1>2, ConnAddPreserves
    <2>2. {f} \in SUBSET Fds
      OBVIOUS
    <2> HIDE DEF A
    <2>3. CASE AtLimit(T, p)
      <3>1. Accepted(T, f, p, l, setup, reachable) = conn_del(A, {f})
        BY <1>2, <2>3 DEF Accepted, A
      <3> QED
        BY <2>1, <2>2, <3>1, ConnDelPreserves
    <2>4. CASE ~AtLimit(T, p)
      <3>1. ~AtLimit(A, p)
        BY <2>1, <2>4 DEF AtLimit
      <3>2. TableInv(R) /\ f \in Mapped(R)
        BY <2>1, <3>1, RegisteredPreserves
      <3> HIDE DEF R
      <3>3. CASE ~setup
        <4>1. Accepted(T, f, p, l, setup, reachable) = conn_del(R, {f})
          BY <1>2, <2>4, <3>3 DEF Accepted, A, R
        <4> QED
          BY <2>2, <3>2, <4>1, ConnDelPreserves
      <3>4. CASE setup /\ l = "forward" /\ reachable
        <4> DEFINE c == [Conn(R, f) EXCEPT !.forward_active = TRUE]
        <4>1. Accepted(T, f, p, l, setup, reachable) = WithConn(R, f, c)
          BY <1>2, <2>4, <3>4 DEF Accepted, A, R, forward_on_accept
        <4>2. Conn(R, f) \in ClientData
          BY <3>2, ConnTyped
        <4>3. c \in ClientData
          BY <4>2, SlotUpdatesTyped
        <4>4. c.fd = Conn(R, f).fd /\ c.peer = Conn(R, f).peer
          BY <4>2 DEF ClientData
        <4> HIDE DEF c
        <4> QED
          BY <3>2, <4>1, <4>3, <4>4, WithConnPreserves
      <3>5. CASE setup /\ l = "forward" /\ ~reachable
        <4> DEFINE U == [R EXCEPT !.open = @ \ {f}]
        <4>1. Accepted(T, f, p, l, setup, reachable) = U
          BY <1>2, <2>4, <3>5 DEF Accepted, A, R, forward_on_accept
        <4>2. U \in Tables /\ U.clients = R.clients /\ U.fd_to_index = R.fd_to_index
              /\ U.ip_conn_counts = R.ip_conn_counts /\ U.open \subseteq R.open
          BY <3>2 DEF TableInv, Tables
        <4> HIDE DEF U
        <4>3. TableInv(U)
          BY <3>2, <4>2, SlotDetailsPreserve
        <4> QED
          BY <4>1, <4>3
      <3>6. CASE setup /\ l # "forward"
        <4>1. Accepted(T, f, p, l, setup, reachable) = R
          BY <1>2, <2>4, <3>6 DEF Accepted, A, R
        <4> QED
          BY <3>2, <4>1
      <3> QED
        BY <3>3, <3>4, <3>5, <3>6
    <2> QED
      BY <2>3, <2>4
  <1> QED
    BY <1>1, <1>2

\* http_dispatcher and the handler leave the table's invariant intact, whether
\* the response is sent, partly sent or fails.
LEMMA DispatchedPreserves ==
  ASSUME NEW T, TableInv(T), NEW f \in Mapped(T), NEW ka \in BOOLEAN,
         NEW sent \in {"all", "part", "fail"}
  PROVE  TableInv(Dispatched(T, f, ka, sent))
  <1> DEFINE c == [Conn(T, f) EXCEPT !.state = "done", !.ka = ka, !.idle = 0, !.served = TRUE]
             r == IF ka THEN http_parser_reset(c) ELSE c
             s == [r EXCEPT !.sending = TRUE]
  <1>1. Conn(T, f) \in ClientData /\ {f} \in SUBSET Fds
    BY ConnTyped
  <1>2. c \in ClientData /\ c.fd = Conn(T, f).fd /\ c.peer = Conn(T, f).peer
    <2>1. "done" \in ParserStates
      BY DEF ParserStates
    <2>2. c \in ClientData
      BY <1>1, <2>1, SlotUpdatesTyped
    <2> QED
      BY <1>1, <2>2 DEF ClientData
  <1>3. r \in ClientData /\ r.fd = c.fd /\ r.peer = c.peer
    <2> HIDE DEF c
    <2>1. http_parser_reset(c) \in ClientData
      BY <1>2, SlotUpdatesTyped
    <2>2. http_parser_reset(c).fd = c.fd /\ http_parser_reset(c).peer = c.peer
      BY <1>2 DEF ClientData, http_parser_reset
    <2> QED
      BY <1>2, <2>1, <2>2
  <1>4. s \in ClientData /\ s.fd = r.fd /\ s.peer = r.peer
    <2> HIDE DEF r
    <2>1. s \in ClientData
      BY <1>3, SlotUpdatesTyped
    <2> QED
      BY <1>3, <2>1 DEF ClientData
  <1>5. TableInv(conn_del(T, {f}))
    BY <1>1, ConnDelPreserves
  <1>6. TableInv(WithConn(T, f, r)) /\ TableInv(WithConn(T, f, s))
    <2> HIDE DEF c, r, s
    <2> QED
      BY <1>2, <1>3, <1>4, WithConnPreserves
  <1>7. Dispatched(T, f, ka, sent) \in
          {conn_del(T, {f}), WithConn(T, f, r), WithConn(T, f, s)}
    <2>1. CASE sent = "all"
      BY <2>1 DEF Dispatched
    <2>2. CASE sent = "part"
      BY <2>2 DEF Dispatched
    <2>3. CASE sent = "fail"
      BY <2>3 DEF Dispatched
    <2> QED
      BY <2>1, <2>2, <2>3
  <1> QED
    BY <1>5, <1>6, <1>7

-----------------------------------------------------------------------------
(* The inductive invariant of the specification.                              *)
IInv == TypeOK /\ TableInv(tab)

\* Every handler step goes through Step, so a table that keeps its invariant is
\* all that has to be shown of a handler.
LEMMA StepPreserves ==
  ASSUME IInv, NEW T, TableInv(T), Step(T)
  PROVE  IInv'
  <1>1. tab' = T /\ T \in Tables
    BY DEF Step, TableInv
  <1>2. budget' \in 0..MaxEvents /\ swept' \in BOOLEAN
    BY TableAssumption, TimeAssumption DEF IInv, TypeOK, Step
  <1>3. uptime' \in [Fds -> 0..AgeCap]
    <2>1. \A f \in Fds : uptime[f] \in 0..AgeCap
      BY DEF IInv, TypeOK
    <2>2. 0 \in 0..AgeCap
      BY TableAssumption, TimeAssumption
    <2> QED
      BY <2>1, <2>2 DEF Step
  <1>4. TableInv(tab')
    BY <1>1
  <1>5. TableInv(tab)'
    BY <1>4 DEF TableInv, Tables, Consistent, CountsExact, WithinLimit, Holding, Mapped, get_conn
  <1> QED
    BY <1>1, <1>2, <1>3, <1>5 DEF IInv, TypeOK

\* Each event handler preserves the inductive invariant.
LEMMA EventPreserves == IInv /\ Event => IInv'
  <1> SUFFICES ASSUME IInv, Event PROVE IInv'
    OBVIOUS
  <1>0. TableInv(tab)
    BY DEF IInv
  <1>1. ASSUME NEW p \in Remotes, NEW l \in Listeners, NEW setup \in BOOLEAN,
               NEW r \in FwdReachable, Accept(p, l, setup, r)
        PROVE  IInv'
    <2>1. PICK f \in KernelFd(tab) : Step(Accepted(tab, f, p, l, setup, r))
      BY <1>1 DEF Accept
    <2>2. f \in Fds \ tab.open /\ p \in Peers /\ r \in BOOLEAN
      BY ConfigAssumption DEF KernelFd, Peers
    <2>3. TableInv(Accepted(tab, f, p, l, setup, r))
      BY <1>0, <2>2, AcceptedPreserves
    <2> QED
      BY <2>1, <2>3, StepPreserves
  <1>2. ASSUME NEW f \in Fds, Live(f)
        PROVE  /\ f \in Mapped(tab) /\ {f} \in SUBSET Fds
               /\ Conn(tab, f) \in ClientData
               /\ TableInv(conn_del(tab, {f}))
    BY <1>0, <1>2, ConnTyped, ConnDelPreserves DEF Live
  <1>3. ASSUME NEW f \in Fds, NEW s \in {"head", "body"}, HttpPartial(f, s)
        PROVE  IInv'
    <2> DEFINE c == [Conn(tab, f) EXCEPT !.state = s, !.idle = 0]
    <2>1. Live(f) /\ s \in ParserStates /\ Step(WithConn(tab, f, c))
      BY <1>3 DEF HttpPartial, HttpReadable, Readable, ParserStates
    <2>2. c \in ClientData
      BY <1>2, <2>1, SlotUpdatesTyped
    <2>3. c.fd = Conn(tab, f).fd /\ c.peer = Conn(tab, f).peer
      BY <1>2, <2>1 DEF ClientData
    <2> HIDE DEF c
    <2>4. TableInv(WithConn(tab, f, c))
      BY <1>0, <1>2, <2>1, <2>2, <2>3, WithConnPreserves
    <2> QED
      BY <2>1, <2>4, StepPreserves
  <1>4. ASSUME NEW f \in Fds, HttpBad(f)
        PROVE  IInv'
    <2>1. Live(f) /\ Step(conn_del(tab, {f}))
      BY <1>4 DEF HttpBad, HttpReadable, Readable
    <2> QED
      BY <1>2, <2>1, StepPreserves
  <1>5. ASSUME NEW f \in Fds, NEW ka \in BOOLEAN, NEW sent \in {"all", "part", "fail"},
               HttpRequest(f, ka, sent)
        PROVE  IInv'
    <2>1. Live(f) /\ Step(Dispatched(tab, f, ka, sent))
      BY <1>5 DEF HttpRequest, HttpReadable, Readable
    <2>2. TableInv(Dispatched(tab, f, ka, sent))
      BY <1>0, <1>2, <2>1, DispatchedPreserves
    <2> QED
      BY <2>1, <2>2, StepPreserves
  <1>6. ASSUME NEW f \in Fds, NEW ok \in BOOLEAN, resume_send(f, ok)
        PROVE  IInv'
    <2> DEFINE r == http_parser_reset(Conn(tab, f))
               c == [r EXCEPT !.sending = FALSE]
    <2>1. Live(f) /\ Step(IF ok THEN SendFinished(tab, f) ELSE conn_del(tab, {f}))
      BY <1>6 DEF resume_send
    <2>2. r \in ClientData
      BY <1>2, <2>1, SlotUpdatesTyped
    <2>3. r.fd = Conn(tab, f).fd /\ r.peer = Conn(tab, f).peer
      BY <1>2, <2>1 DEF ClientData, http_parser_reset
    <2>4. c \in ClientData /\ c.fd = Conn(tab, f).fd /\ c.peer = Conn(tab, f).peer
      <3> HIDE DEF r
      <3>1. c \in ClientData
        BY <2>2, SlotUpdatesTyped
      <3> QED
        BY <2>2, <2>3, <3>1 DEF ClientData
    <2>5. TableInv(WithConn(tab, f, c))
      <3> HIDE DEF c
      <3> QED
        BY <1>0, <1>2, <2>1, <2>4, WithConnPreserves
    <2>6. TableInv(SendFinished(tab, f))
      BY <1>2, <2>1, <2>5 DEF SendFinished
    <2> QED
      BY <1>2, <2>1, <2>6, StepPreserves
  <1>7. ASSUME NEW f \in Fds, RawRead(f)
        PROVE  IInv'
    <2> DEFINE c == [Conn(tab, f) EXCEPT !.idle = 0]
    <2>1. Live(f) /\ Step(WithConn(tab, f, c))
      BY <1>7 DEF RawRead, Readable
    <2>a. c \in ClientData
      BY <1>2, <2>1, SlotUpdatesTyped
    <2>2. c \in ClientData /\ c.fd = Conn(tab, f).fd /\ c.peer = Conn(tab, f).peer
      BY <1>2, <2>1, <2>a DEF ClientData
    <2> HIDE DEF c
    <2>3. TableInv(WithConn(tab, f, c))
      BY <1>0, <1>2, <2>1, <2>2, WithConnPreserves
    <2> QED
      BY <2>1, <2>3, StepPreserves
  <1>8. ASSUME NEW f \in Fds, ForwardSendError(f)
        PROVE  IInv'
    <2> DEFINE c == [Conn(tab, f) EXCEPT !.forward_active = FALSE, !.idle = 0]
    <2>1. Live(f) /\ Step(WithConn(tab, f, c))
      BY <1>8 DEF ForwardSendError, Readable
    <2>2. c \in ClientData
      BY <1>2, <2>1, SlotUpdatesTyped
    <2>3. c.fd = Conn(tab, f).fd /\ c.peer = Conn(tab, f).peer
      BY <1>2, <2>1 DEF ClientData
    <2> HIDE DEF c
    <2>4. TableInv(WithConn(tab, f, c))
      BY <1>0, <1>2, <2>1, <2>2, <2>3, WithConnPreserves
    <2> QED
      BY <2>1, <2>4, StepPreserves
  <1>9. ASSUME NEW f \in Fds, Disconnect(f)
        PROVE  IInv'
    <2> DEFINE c == [Conn(tab, f) EXCEPT !.forward_active = FALSE]
               U == WithConn(tab, f, c)
    <2>1. Live(f) /\ Step(conn_del(U, {f}))
      BY <1>9 DEF Disconnect, Readable
    <2>a. c \in ClientData
      BY <1>2, <2>1, SlotUpdatesTyped
    <2>2. c \in ClientData /\ c.fd = Conn(tab, f).fd /\ c.peer = Conn(tab, f).peer
      BY <1>2, <2>1, <2>a DEF ClientData
    <2>3. TableInv(U)
      <3> HIDE DEF c
      <3> QED
        BY <1>0, <1>2, <2>1, <2>2, WithConnPreserves
    <2> HIDE DEF U
    <2>4. TableInv(conn_del(U, {f}))
      BY <1>2, <2>1, <2>3, ConnDelPreserves
    <2> QED
      BY <2>1, <2>4, StepPreserves
  <1> QED
    BY <1>1, <1>3, <1>4, <1>5, <1>6, <1>7, <1>8, <1>9 DEF Event

\* The passing of a second preserves the inductive invariant.
LEMMA TickPreserves == IInv /\ Tick => IInv'
  <1> SUFFICES ASSUME IInv, Tick PROVE IInv'
    OBVIOUS
  <1> DEFINE C == [i \in Slots |->
               IF tab.clients[i].fd = 0 THEN tab.clients[i]
               ELSE [tab.clients[i] EXCEPT !.age = Older(@), !.idle = Older(@)]]
             U == [tab EXCEPT !.clients = C]
  <1>0. TableInv(tab) /\ tab \in Tables /\ \A i \in Slots : tab.clients[i] \in ClientData
    BY DEF IInv, TableInv, Tables
  <1>1. \A i \in Slots : /\ C[i] \in ClientData
                         /\ C[i].fd = tab.clients[i].fd /\ C[i].peer = tab.clients[i].peer
    <2> SUFFICES ASSUME NEW i \in Slots
                 PROVE  /\ C[i] \in ClientData
                        /\ C[i].fd = tab.clients[i].fd /\ C[i].peer = tab.clients[i].peer
      OBVIOUS
    <2>1. [tab.clients[i] EXCEPT !.age = Older(@), !.idle = Older(@)] \in ClientData
      BY <1>0, SlotUpdatesTyped
    <2> QED
      BY <1>0, <2>1 DEF ClientData
  <1>2. C \in [Slots -> ClientData]
    BY <1>1
  <1> HIDE DEF C
  <1>3. U \in Tables /\ U.clients = C /\ U.fd_to_index = tab.fd_to_index
        /\ U.ip_conn_counts = tab.ip_conn_counts /\ U.open = tab.open
    BY <1>0, <1>2 DEF Tables
  <1>4. tab' = U
    BY DEF Tick, C
  <1> HIDE DEF U
  <1>5. TableInv(U)
    BY <1>0, <1>1, <1>3, SlotDetailsPreserve
  <1>6. uptime' \in [Fds -> 0..AgeCap] /\ swept' \in BOOLEAN /\ budget' \in 0..MaxEvents
    <2>1. \A n \in 0..AgeCap : Older(n) \in 0..AgeCap
      BY TableAssumption, TimeAssumption DEF Older
    <2>2. 0 \in 0..AgeCap
      BY TableAssumption, TimeAssumption
    <2> QED
      BY <2>1, <2>2 DEF IInv, TypeOK, Tick
  <1>7. TableInv(tab')
    BY <1>4, <1>5
  <1>8. TableInv(tab)'
    BY <1>7 DEF TableInv, Tables, Consistent, CountsExact, WithinLimit, Holding, Mapped, get_conn
  <1> QED
    BY <1>3, <1>4, <1>6, <1>8 DEF IInv, TypeOK

\* The timeout sweep preserves the inductive invariant: it is a conn_del of the
\* descriptors it collected.
LEMMA SweepPreserves == IInv /\ Sweep => IInv'
  <1> SUFFICES ASSUME IInv, Sweep PROVE IInv'
    OBVIOUS
  <1>0. TableInv(tab) /\ tab \in Tables
    BY DEF IInv, TableInv
  <1>1. StaleFds(tab) \in SUBSET Fds
    BY <1>0 DEF StaleFds, Stale, Tables, ClientData
  <1>2. TableInv(connection_timeout_sweep(tab))
    BY <1>0, <1>1, ConnDelPreserves DEF connection_timeout_sweep
  <1>3. tab' = connection_timeout_sweep(tab)
    BY DEF Sweep
  <1>4. TableInv(tab')
    BY <1>2, <1>3
  <1>5. TableInv(tab)'
    BY <1>4 DEF TableInv, Tables, Consistent, CountsExact, WithinLimit, Holding, Mapped, get_conn
  <1>6. tab' \in Tables
    BY <1>4 DEF TableInv
  <1>7. uptime' \in [Fds -> 0..AgeCap] /\ swept' \in BOOLEAN /\ budget' \in 0..MaxEvents
    BY TableAssumption, TimeAssumption DEF IInv, TypeOK, Sweep
  <1> QED
    BY <1>5, <1>6, <1>7 DEF IInv, TypeOK

\* The inductive invariant holds in every reachable state.
THEOREM Invariance == Spec => []IInv
  <1>1. Init => IInv
    <2> SUFFICES ASSUME Init PROVE IInv
      OBVIOUS
    <2>1. 0 \in 0..AgeCap /\ 0 \in 0..MaxEvents
      BY TableAssumption, TimeAssumption
    <2>2. EmptySlot \in ClientData /\ EmptySlot.fd = 0
      BY <2>1 DEF EmptySlot, ClientData, ParserStates, Peers
    <2>3. tab \in Tables /\ tab.clients = [i \in Slots |-> EmptySlot]
          /\ tab.fd_to_index = [f \in Fds |-> -1]
          /\ tab.ip_conn_counts = [p \in Ips |-> 0] /\ tab.open = {}
      BY <2>2 DEF Init, EmptyTable, Tables
    <2>4. Consistent(tab)
      BY <2>3 DEF Consistent, Mapped, get_conn
    <2>5. \A p \in Ips : Holding(tab, p) = {}
      BY <2>2, <2>3 DEF Holding
    <2>6. CountsExact(tab)
      BY <2>3, <2>5, FS_EmptySet DEF CountsExact
    <2>7. WithinLimit(tab)
      BY <2>3, TableAssumption DEF WithinLimit
    <2>8. uptime \in [Fds -> 0..AgeCap] /\ swept \in BOOLEAN /\ budget \in 0..MaxEvents
      BY <2>1 DEF Init
    <2> QED
      BY <2>3, <2>4, <2>6, <2>7, <2>8 DEF IInv, TypeOK, TableInv
  <1>2. IInv /\ [Next]_vars => IInv'
    <2> SUFFICES ASSUME IInv, [Next]_vars PROVE IInv'
      OBVIOUS
    <2>1. CASE Event
      BY <2>1, EventPreserves
    <2>2. CASE Tick
      BY <2>2, TickPreserves
    <2>3. CASE Sweep
      BY <2>3, SweepPreserves
    <2>4. CASE UNCHANGED vars
      <3>1. tab' = tab /\ swept' = swept /\ budget' = budget /\ uptime' = uptime
        BY <2>4 DEF vars
      <3>2. TypeOK'
        BY <3>1 DEF IInv, TypeOK
      <3>3. TableInv(tab')
        BY <3>1 DEF IInv
      <3>4. TableInv(tab)'
        BY <3>3 DEF TableInv, Tables, Consistent, CountsExact, WithinLimit, Holding,
                    Mapped, get_conn
      <3> QED
        BY <3>2, <3>4 DEF IInv
    <2> QED
      BY <2>1, <2>2, <2>3, <2>4 DEF Next
  <1> QED
    BY <1>1, <1>2, PTL DEF Spec

\* The table, the counters and the loop's variables are well typed in every
\* reachable state, for any configuration.
THEOREM TypeCorrect == Spec => []TypeOK
  <1>1. IInv => TypeOK
    BY DEF IInv
  <1> QED
    BY <1>1, Invariance, PTL

\* fd_to_index and clients[] agree in every reachable state, even when forward
\* targets are unreachable.
THEOREM TableAlwaysConsistent == Spec => []TableConsistent
  <1>1. IInv => TableConsistent
    BY DEF IInv, TableInv, TableConsistent
  <1> QED
    BY <1>1, Invariance, PTL

\* ip_conn_counts is exact in every reachable state, for any table size, any
\* limit and any timeouts.
THEOREM IpCountAlwaysExact == Spec => []IpCountExact
  <1>1. IInv => IpCountExact
    BY DEF IInv, TableInv, IpCountExact
  <1> QED
    BY <1>1, Invariance, PTL

\* No address ever has more open connections than max_connections_per_ip: the
\* open descriptors of an address inject into the slots counted for it.
THEOREM PerIpLimitHolds == Spec => []PerIpLimit
  <1>1. IInv => PerIpLimit
    <2> SUFFICES ASSUME IInv, MaxPerIp > 0, NEW p \in Ips
                 PROVE  Cardinality({f \in tab.open : Conn(tab, f).peer = p}) <= MaxPerIp
      BY DEF PerIpLimit
    <2> DEFINE O == {f \in tab.open : Conn(tab, f).peer = p}
               H == Holding(tab, p)
               m == [f \in O |-> get_conn(tab, f)]
    <2>0. TableInv(tab)
      BY DEF IInv
    <2>1. IsFiniteSet(H) /\ Cardinality(H) \in Nat
      BY SlotSetsFinite DEF Holding
    <2>2. Cardinality(H) <= MaxPerIp
      BY <2>0 DEF TableInv, CountsExact, WithinLimit
    <2>3. \A f \in O : f \in Mapped(tab)
      BY <2>0 DEF TableInv, Consistent
    <2>4. \A f \in Mapped(tab) : /\ get_conn(tab, f) \in Slots
                                 /\ tab.clients[get_conn(tab, f)].fd = f
                                 /\ f # 0
      BY <2>0, TableAssumption DEF TableInv, Tables, Consistent, Mapped, get_conn, Fds
    <2>5. \A f \in O : get_conn(tab, f) \in H
      BY <2>3, <2>4 DEF Holding, Conn
    <2>6. \A f, g \in O : get_conn(tab, f) = get_conn(tab, g) => f = g
      BY <2>3, <2>4
    <2>7. m \in Injection(O, H)
      BY <2>5, <2>6 DEF Injection, IsInjective
    <2>8. IsFiniteSet(O) /\ Cardinality(O) <= Cardinality(H)
      <3> HIDE DEF m, O, H
      <3> QED
        BY <2>1, <2>7, FS_Injection
    <2>9. Cardinality(O) \in Nat
      BY <2>8, FS_CardinalityType
    <2> QED
      BY <2>1, <2>2, <2>8, <2>9, TableAssumption
  <1> QED
    BY <1>1, Invariance, PTL

-----------------------------------------------------------------------------
(***************************************************************************)
(* Proofs about connection_timeout_sweep, for every table size, timeout,   *)
(* quota and batch: it is not late for long, and which connections it may  *)
(* close.                                                                  *)
(*                                                                         *)
(* The first needs every forward target to be reachable.  When             *)
(* forward_connect fails, forward_on_accept closes the descriptor and      *)
(* leaves its slot occupied; a slot whose number is mapped elsewhere stays *)
(* for good and counts against the quota of every later sweep.             *)
(***************************************************************************)

(* What holds of every slot, occupied or not, whatever it was used for.       *)
Flags(c) ==
  /\ ~c.proxy_active
  /\ c.forward_active => c.fd # 0 /\ ~c.is_http /\ ~c.sending
  /\ c.state = "done" \/ c.sending => c.served
  /\ c.idle <= c.age

(* An occupied slot is the slot of its descriptor, which is open and has been *)
(* for at least the slot's age.                                               *)
SlotOK(T, up, i) ==
  /\ Flags(T.clients[i])
  /\ T.clients[i].fd # 0 => /\ T.clients[i].fd \in T.open
                            /\ get_conn(T, T.clients[i].fd) = i
                            /\ T.clients[i].age <= up[T.clients[i].fd]

Sound(T, up) == \A i \in Slots : SlotOK(T, up, i)

(* The slots that the sweep visits before slot i and might have to close.     *)
Occupied(T, i) == {j \in Slots : j < i /\ T.clients[j].fd # 0}

(* The connections a sweep closes less those its batch can bring.             *)
Drain == SweepMax - MaxEvents

(* When slot i is l seconds late, the sweeps of those seconds have each closed *)
(* SweepMax slots below it, and the events since have filled MaxEvents at most. *)
Behind(T, s, b, i, l) ==
  /\ s => /\ Drain * (l + 1) + Cardinality(Occupied(T, i)) + b <= i - 1
          /\ Drain * (l + 1) + MaxEvents <= i - 1
  /\ ~s /\ l > 0 => Drain * l + Cardinality(Occupied(T, i)) + b <= i - 1

Backlog(T, s, b) ==
  SweepMax > MaxEvents =>
    \A i \in Slots, l \in Nat : Late(T.clients[i], l) => Behind(T, s, b, i, l)

TInv == IInv /\ Sound(tab, uptime) /\ Backlog(tab, swept, budget)

(* An event changes one slot, k, and the state of one descriptor, f.          *)
Touches(T, U, f, k) ==
  /\ f \in Fds /\ k \in Slots
  /\ \A j \in Slots \ {k} : U.clients[j] = T.clients[j]
  /\ \A g \in Fds \ {f} : (g \in U.open <=> g \in T.open) /\ get_conn(U, g) = get_conn(T, g)
  /\ \/ f \in T.open /\ get_conn(T, f) = k
     \/ f \notin T.open /\ T.clients[k].fd = 0
  /\ Flags(U.clients[k])
  /\ U.clients[k].fd # 0 =>
       /\ U.clients[k].fd = f /\ f \in U.open /\ get_conn(U, f) = k
       /\ \/ U.clients[k].age = 0
          \/ f \in T.open /\ T.clients[k].fd = f /\ U.clients[k].age = T.clients[k].age
  /\ \A l \in Nat : Late(U.clients[k], l) => Late(T.clients[k], l)

Uptimes(T, U, up) == [f \in Fds |-> IF f \in T.open \cap U.open THEN up[f] ELSE 0]

-----------------------------------------------------------------------------
(* One event.                                                                *)

\* What the assumptions on the constants say of timeouts, quota, slots and descriptors.
LEMMA TimeFacts ==
  /\ HeaderTimeout \in Nat /\ BodyTimeout \in Nat /\ IdleTimeout \in Nat /\ AgeCap \in Nat
  /\ SweepMax \in Nat /\ MaxEvents \in Nat /\ NumClients \in Nat /\ 0 \notin Fds /\ -1 \notin Slots
  BY TableAssumption, TimeAssumption DEF Fds, Slots

\* The types of a slot of the table.
LEMMA SlotTyped ==
  ASSUME NEW T \in Tables, NEW i \in Slots
  PROVE  /\ T.clients[i] \in ClientData /\ T.clients[i].fd \in {0} \cup Fds
         /\ T.clients[i].age \in 0..AgeCap /\ T.clients[i].idle \in 0..AgeCap
  BY DEF Tables, ClientData

\* The slots that an event does not touch stay sound, and the one it touches is.
LEMMA TouchedSound ==
  ASSUME NEW T \in Tables, NEW U \in Tables, NEW up \in [Fds -> 0..AgeCap], Sound(T, up),
         NEW f, NEW k, Touches(T, U, f, k)
  PROVE  Sound(U, Uptimes(T, U, up))
  <1> DEFINE up2 == Uptimes(T, U, up)
  <1>1. /\ f \in Fds /\ k \in Slots
        /\ \A j \in Slots \ {k} : U.clients[j] = T.clients[j]
        /\ \A g \in Fds \ {f} : (g \in U.open <=> g \in T.open) /\ get_conn(U, g) = get_conn(T, g)
    BY DEF Touches
  <1>2. \A g \in Fds : up2[g] = IF g \in T.open /\ g \in U.open THEN up[g] ELSE 0
    BY DEF Uptimes
  <1>3. \A g \in Fds : up[g] \in 0..AgeCap
    OBVIOUS
  <1> HIDE DEF up2
  <1>4. ASSUME NEW j \in Slots \ {k} PROVE SlotOK(U, up2, j)
    <2>1. SlotOK(T, up, j) /\ U.clients[j] = T.clients[j]
      BY <1>1 DEF Sound
    <2>2. CASE T.clients[j].fd = 0
      BY <2>1, <2>2 DEF SlotOK
    <2>3. CASE T.clients[j].fd # 0
      <3> DEFINE g == T.clients[j].fd
      <3>1. g \in Fds /\ g \in T.open /\ get_conn(T, g) = j /\ T.clients[j].age <= up[g]
        BY <2>1, <2>3, SlotTyped DEF SlotOK
      <3>2. g # f
        BY <3>1 DEF Touches
      <3>3. g \in U.open /\ get_conn(U, g) = j /\ up2[g] = up[g]
        BY <1>1, <1>2, <3>1, <3>2
      <3> QED
        BY <2>1, <3>1, <3>3 DEF SlotOK
    <2> QED
      BY <2>2, <2>3
  <1>5. SlotOK(U, up2, k)
    <2>1. CASE U.clients[k].fd = 0
      BY <2>1 DEF SlotOK, Touches
    <2>2. CASE U.clients[k].fd # 0
      <3>1. U.clients[k].fd = f /\ f \in U.open /\ get_conn(U, f) = k /\ Flags(U.clients[k])
        BY <2>2 DEF Touches
      <3>2. U.clients[k].age <= up2[f]
        <4>1. CASE U.clients[k].age = 0
          BY <1>1, <1>2, <1>3, <4>1, TimeFacts
        <4>2. CASE f \in T.open /\ T.clients[k].fd = f /\ U.clients[k].age = T.clients[k].age
          <5>1. T.clients[k].age <= up[f]
            BY <1>1, <2>2, <3>1, <4>2, TimeFacts DEF Sound, SlotOK
          <5> QED
            BY <1>1, <1>2, <3>1, <4>2, <5>1
        <4> QED
          BY <2>2, <4>1, <4>2 DEF Touches
      <3> QED
        BY <3>1, <3>2 DEF SlotOK
    <2> QED
      BY <2>1, <2>2
  <1> QED
    BY <1>4, <1>5 DEF Sound, up2

\* An event fills at most one slot, and uses up one of the batch.
LEMMA TouchedBacklog ==
  ASSUME NEW T \in Tables, NEW U \in Tables, NEW f, NEW k, Touches(T, U, f, k),
         NEW s \in BOOLEAN, NEW b \in Nat, b > 0, Backlog(T, s, b)
  PROVE  Backlog(U, s, b - 1)
  <1> SUFFICES ASSUME SweepMax > MaxEvents, NEW i \in Slots, NEW l \in Nat, Late(U.clients[i], l)
               PROVE  Behind(U, s, b - 1, i, l)
    BY DEF Backlog
  <1>1. k \in Slots /\ \A j \in Slots \ {k} : U.clients[j] = T.clients[j]
    BY DEF Touches
  <1>2. Late(T.clients[i], l)
    BY <1>1 DEF Touches
  <1>3. Behind(T, s, b, i, l)
    BY <1>2 DEF Backlog
  <1>4. Cardinality(Occupied(U, i)) <= Cardinality(Occupied(T, i)) + 1
        /\ Cardinality(Occupied(T, i)) \in Nat /\ Cardinality(Occupied(U, i)) \in Nat
    <2>1. Occupied(T, i) \in SUBSET Slots /\ Occupied(U, i) \in SUBSET Slots
      BY DEF Occupied
    <2>2. IsFiniteSet(Occupied(T, i)) /\ Cardinality(Occupied(T, i)) \in Nat
          /\ Cardinality(Occupied(U, i)) \in Nat
      BY <2>1, SlotSetsFinite
    <2>3. Occupied(U, i) \in SUBSET (Occupied(T, i) \cup {k})
      BY <1>1 DEF Occupied
    <2>4. /\ IsFiniteSet(Occupied(T, i) \cup {k})
          /\ Cardinality(Occupied(T, i) \cup {k}) <= Cardinality(Occupied(T, i)) + 1
          /\ Cardinality(Occupied(T, i) \cup {k}) \in Nat
      <3>1. /\ IsFiniteSet(Occupied(T, i) \cup {k})
            /\ Cardinality(Occupied(T, i) \cup {k}) =
                 IF k \in Occupied(T, i) THEN Cardinality(Occupied(T, i))
                 ELSE Cardinality(Occupied(T, i)) + 1
        BY <2>2, FS_AddElement
      <3> QED
        BY <2>2, <3>1
    <2>5. Cardinality(Occupied(U, i)) <= Cardinality(Occupied(T, i) \cup {k})
      BY <2>3, <2>4, FS_Subset
    <2> QED
      BY <2>2, <2>4, <2>5
  <1>5. PICK x \in Nat : x = Cardinality(Occupied(T, i))
    BY <1>4
  <1>6. PICK y \in Nat : y = Cardinality(Occupied(U, i))
    BY <1>4
  <1>7. y + (b - 1) <= x + b
    BY <1>4, <1>5, <1>6
  <1>8. \A m \in Int : m + x + b <= i - 1 => m + y + (b - 1) <= i - 1
    BY <1>7 DEF Slots
  <1>9. Drain * (l + 1) \in Int /\ Drain * l \in Int
    BY TimeFacts DEF Drain
  <1> QED
    BY <1>3, <1>5, <1>6, <1>8, <1>9 DEF Behind
-----------------------------------------------------------------------------
(* The handlers.                                                             *)

\* conn_del of one descriptor.
LEMMA ConnDelOne ==
  ASSUME NEW T \in Tables, NEW f \in Mapped(T), NEW k, k = get_conn(T, f),
         NEW U, U = conn_del(T, {f})
  PROVE  /\ k \in Slots /\ U.clients[k] = Vacated(T.clients[k])
         /\ \A j \in Slots \ {k} : U.clients[j] = T.clients[j]
         /\ U.open = T.open \ {f}
         /\ \A g \in Fds \ {f} : get_conn(U, g) = get_conn(T, g)
  <1>1. f \in Fds /\ k \in Slots
    BY DEF Mapped, get_conn, Tables
  <1>2. Deleted(T, {f}) = {k}
    BY DEF Deleted
  <1>3. {f} \cap Mapped(T) = {f}
    OBVIOUS
  <1> QED
    BY <1>1, <1>2, <1>3 DEF conn_del, get_conn

\* A slot that conn_del has emptied is late for nothing.
LEMMA VacatedFlags ==
  ASSUME NEW c \in ClientData, ~c.proxy_active, ~c.forward_active
  PROVE  Flags(Vacated(c)) /\ Vacated(c).fd = 0 /\ \A l \in Nat : ~Late(Vacated(c), l)
  BY DEF Vacated, Flags, Late, ClientData

\* A handler that keeps the connection.
LEMMA WithConnTouches ==
  ASSUME NEW T, TableInv(T), NEW f \in T.open \cap Mapped(T), NEW c \in ClientData,
         c.fd = f, Flags(c), c.age = Conn(T, f).age,
         \A l \in Nat : Late(c, l) => Late(Conn(T, f), l),
         NEW U, U = WithConn(T, f, c)
  PROVE  Touches(T, U, f, get_conn(T, f))
  <1>1. T \in Tables /\ f \in Fds /\ get_conn(T, f) \in Slots
    BY DEF TableInv, Tables, Mapped, get_conn
  <1>2. T.clients[get_conn(T, f)] = Conn(T, f) /\ Conn(T, f).fd = f
    BY DEF Conn, TableInv, Consistent
  <1>3. /\ U.clients[get_conn(T, f)] = c /\ U.open = T.open /\ U.fd_to_index = T.fd_to_index
        /\ \A j \in Slots \ {get_conn(T, f)} : U.clients[j] = T.clients[j]
    BY <1>1 DEF WithConn, Tables
  <1>4. \A g \in Fds : get_conn(U, g) = get_conn(T, g)
    BY <1>3 DEF get_conn
  <1> QED
    BY <1>1, <1>2, <1>3, <1>4 DEF Touches

\* A handler that ends the connection; V is the table just before conn_del.
LEMMA ConnDelTouches ==
  ASSUME NEW T \in Tables, NEW f \in T.open \cap Mapped(T), NEW V \in Tables,
         V.open = T.open, V.fd_to_index = T.fd_to_index,
         \A j \in Slots \ {get_conn(T, f)} : V.clients[j] = T.clients[j],
         ~Conn(V, f).proxy_active, ~Conn(V, f).forward_active,
         NEW U, U = conn_del(V, {f})
  PROVE  Touches(T, U, f, get_conn(T, f))
  <1>1. f \in Fds /\ f \in Mapped(V) /\ \A g \in Fds : get_conn(V, g) = get_conn(T, g)
    BY DEF Mapped, get_conn
  <1> DEFINE k == get_conn(V, f)
  <1>2. /\ k \in Slots /\ U.clients[k] = Vacated(V.clients[k])
        /\ \A j \in Slots \ {k} : U.clients[j] = V.clients[j]
        /\ U.open = V.open \ {f}
        /\ \A g \in Fds \ {f} : get_conn(U, g) = get_conn(V, g)
    BY <1>1, ConnDelOne
  <1>3. V.clients[k] \in ClientData /\ ~V.clients[k].proxy_active /\ ~V.clients[k].forward_active
    BY <1>2, SlotTyped DEF Conn
  <1>4. k = get_conn(T, f)
    BY <1>1
  <1> HIDE DEF k
  <1>5. Flags(U.clients[k]) /\ U.clients[k].fd = 0 /\ \A l \in Nat : ~Late(U.clients[k], l)
    BY <1>2, <1>3, VacatedFlags
  <1>6. Touches(T, U, f, k)
    BY <1>1, <1>2, <1>4, <1>5 DEF Touches
  <1> QED
    BY <1>4, <1>6

(* V is T with the new connection f in slot k.                                *)
Entered(T, V, f, k) ==
  /\ f \in Fds \ T.open /\ k \in Slots /\ T.clients[k].fd = 0
  /\ V \in Tables /\ V.open = T.open \cup {f} /\ get_conn(V, f) = k
  /\ \A g \in Fds \ {f} : get_conn(V, g) = get_conn(T, g)
  /\ \A j \in Slots \ {k} : V.clients[j] = T.clients[j]
  /\ V.clients[k].fd = f /\ V.clients[k].age = 0 /\ V.clients[k].idle = 0
  /\ V.clients[k].state = "start" /\ ~V.clients[k].proxy_active /\ ~V.clients[k].sending

\* An accept that keeps the new connection touches its slot only.
LEMMA EnteredTouches ==
  ASSUME NEW T, NEW V, NEW f, NEW k, Entered(T, V, f, k),
         V.clients[k].forward_active => ~V.clients[k].is_http
  PROVE  Touches(T, V, f, k)
  <1>1. 0 <= 0 /\ "start" # "done" /\ f # 0
    BY TimeFacts DEF Entered
  <1>2. Flags(V.clients[k])
    BY <1>1 DEF Flags, Entered
  <1>3. \A l \in Nat : ~Late(V.clients[k], l)
    BY TimeFacts DEF Late, Entered
  <1>4. \A g \in Fds \ {f} : g \in V.open <=> g \in T.open
    BY DEF Entered
  <1> QED
    BY <1>2, <1>3, <1>4 DEF Entered, Touches

\* An accept that ends the new connection at once touches its slot only.
LEMMA EnteredDelTouches ==
  ASSUME NEW T, NEW V, NEW f, NEW k, Entered(T, V, f, k), ~V.clients[k].forward_active,
         NEW U, U = conn_del(V, {f})
  PROVE  Touches(T, U, f, k)
  <1>1. V \in Tables /\ f \in Mapped(V) /\ k = get_conn(V, f)
    BY TimeFacts DEF Entered, Mapped
  <1>2. /\ k \in Slots /\ U.clients[k] = Vacated(V.clients[k])
        /\ \A j \in Slots \ {k} : U.clients[j] = V.clients[j]
        /\ U.open = V.open \ {f}
        /\ \A g \in Fds \ {f} : get_conn(U, g) = get_conn(V, g)
    BY <1>1, ConnDelOne
  <1>3. V.clients[k] \in ClientData /\ ~V.clients[k].proxy_active
    BY <1>1, <1>2, SlotTyped DEF Entered
  <1>4. Flags(U.clients[k]) /\ U.clients[k].fd = 0 /\ \A l \in Nat : ~Late(U.clients[k], l)
    BY <1>2, <1>3, VacatedFlags
  <1>5. \A g \in Fds \ {f} : (g \in U.open <=> g \in T.open) /\ get_conn(U, g) = get_conn(T, g)
    BY <1>2 DEF Entered
  <1>6. f \in Fds /\ f \notin T.open /\ T.clients[k].fd = 0
        /\ \A j \in Slots \ {k} : U.clients[j] = T.clients[j]
    BY <1>2 DEF Entered
  <1> QED
    BY <1>2, <1>4, <1>5, <1>6 DEF Touches

\* Whatever comes of an accept, one slot is touched, which was free: the new
\* connection inherits neither an age nor an exemption.
LEMMA AcceptTouches ==
  ASSUME NEW T, TableInv(T), NEW up, Sound(T, up), NEW f \in Fds \ T.open, NEW p \in Peers,
         NEW l, NEW setup \in BOOLEAN, NEW U, U = Accepted(T, f, p, l, setup, TRUE)
  PROVE  U = T \/ \E k \in Slots : Touches(T, U, f, k)
  <1> DEFINE k == FirstFree(T)
             B == [T EXCEPT !.open = @ \cup {f}]
             A == conn_add(B, f)
             R == Registered(A, f, p, l)
  <1>1. CASE FreeSlots(T) = {}
    BY <1>1 DEF Accepted
  <1>2. CASE FreeSlots(T) # {}
    <2>1. T \in Tables
      BY DEF TableInv
    <2>2. k \in Slots /\ T.clients[k].fd = 0
      BY <1>2, FirstFreeIsFree DEF FreeSlots
    <2>3. T.clients[k] \in ClientData /\ Flags(T.clients[k])
      BY <2>1, <2>2, SlotTyped DEF Sound, SlotOK
    <2>4. TableInv(A) /\ f \in Mapped(A) /\ Conn(A, f).peer = NoIp
          /\ A.ip_conn_counts = T.ip_conn_counts
      BY <1>2, ConnAddPreserves
    <2>5. /\ A.open = T.open \cup {f} /\ A.clients[k] = NewClient(T.clients[k], f)
          /\ \A j \in Slots \ {k} : A.clients[j] = T.clients[j]
          /\ A.fd_to_index = [T.fd_to_index EXCEPT ![f] = k]
      <3>1. B \in Tables /\ B.open = T.open \cup {f} /\ B.clients = T.clients
            /\ B.fd_to_index = T.fd_to_index
        BY <2>1 DEF Tables
      <3>2. FirstFree(B) = k
        BY <3>1 DEF FirstFree, FreeSlots
      <3>3. A = [B EXCEPT !.clients[k] = NewClient(T.clients[k], f), !.fd_to_index[f] = k]
        BY <3>1, <3>2 DEF conn_add
      <3> HIDE DEF A, B, k
      <3> QED
        BY <2>2, <3>1, <3>3 DEF Tables
    <2>6. get_conn(A, f) = k /\ \A g \in Fds \ {f} : get_conn(A, g) = get_conn(T, g)
      <3> HIDE DEF A, k
      <3> QED
        BY <2>1, <2>5 DEF get_conn, Tables
    <2>7. /\ A.clients[k].fd = f /\ A.clients[k].age = 0 /\ A.clients[k].idle = 0
          /\ A.clients[k].state = "start" /\ ~A.clients[k].sending
          /\ ~A.clients[k].proxy_active /\ ~A.clients[k].forward_active
      <3>1. ~T.clients[k].proxy_active /\ ~T.clients[k].forward_active
        BY <2>2, <2>3 DEF Flags
      <3> HIDE DEF A, k
      <3> QED
        BY <2>3, <2>5, <3>1 DEF NewClient, ClientData
    <2>8. Entered(T, A, f, k)
      <3> HIDE DEF A, k
      <3> QED
        BY <2>2, <2>4, <2>5, <2>6, <2>7 DEF Entered, TableInv
    <2>9. CASE AtLimit(T, p)
      <3>1. U = conn_del(A, {f})
        BY <1>2, <2>9 DEF Accepted
      <3> HIDE DEF A, k
      <3> QED
        BY <2>2, <2>7, <2>8, <3>1, EnteredDelTouches
    <2>10. CASE ~AtLimit(T, p)
      <3>1. ~AtLimit(A, p)
        BY <2>4, <2>10 DEF AtLimit
      <3> DEFINE c == [A.clients[k] EXCEPT !.peer = p, !.is_http = (l = "http")]
      <3>2. TableInv(R) /\ f \in Mapped(R)
        BY <2>4, <3>1, RegisteredPreserves
      <3>3. A \in Tables
        BY <2>4 DEF TableInv
      <3>4. /\ R.open = A.open /\ R.fd_to_index = A.fd_to_index /\ R.clients[k] = c
            /\ \A j \in Slots \ {k} : R.clients[j] = A.clients[j]
        <4> HIDE DEF A, k
        <4> QED
          BY <2>2, <2>6, <3>3 DEF Registered, WithConn, Conn, Tables
      <3>5. /\ c.fd = f /\ c.age = 0 /\ c.idle = 0 /\ c.state = "start" /\ ~c.sending
            /\ ~c.proxy_active /\ ~c.forward_active
        <4>1. A.clients[k] \in ClientData
          BY <2>2, <3>3, SlotTyped
        <4> HIDE DEF A, k
        <4> QED
          BY <2>7, <4>1 DEF ClientData
      <3>6. l # "http" => c.is_http = FALSE
        <4>1. A.clients[k] \in ClientData
          BY <2>2, <3>3, SlotTyped
        <4> HIDE DEF A, k
        <4> QED
          BY <4>1 DEF ClientData
      <3> HIDE DEF A, k, c
      <3>7. \A g \in Fds : get_conn(R, g) = get_conn(A, g)
        BY <3>4 DEF get_conn
      <3>8. Entered(T, R, f, k)
        <4> HIDE DEF R
        <4> QED
          BY <2>2, <2>5, <2>6, <3>2, <3>4, <3>5, <3>7 DEF Entered, TableInv
      <3>9. CASE ~setup
        <4>1. U = conn_del(R, {f})
          BY <1>2, <2>10, <3>9 DEF Accepted, A
        <4> HIDE DEF R
        <4> QED
          BY <2>2, <3>4, <3>5, <3>8, <4>1, EnteredDelTouches
      <3>10. CASE setup /\ l # "forward"
        <4>1. U = R
          BY <1>2, <2>10, <3>10 DEF Accepted, A
        <4> HIDE DEF R
        <4> QED
          BY <2>2, <3>4, <3>5, <3>8, <4>1, EnteredTouches
      <3>11. CASE setup /\ l = "forward"
        <4> DEFINE e == [Conn(R, f) EXCEPT !.forward_active = TRUE]
        <4>1. U = WithConn(R, f, e)
          BY <1>2, <2>10, <3>11 DEF Accepted, A, forward_on_accept
        <4> HIDE DEF R
        <4>2. R \in Tables /\ get_conn(R, f) = k /\ Conn(R, f) = c
          BY <2>6, <3>2, <3>4, <3>7 DEF TableInv, Conn
        <4>3. c \in ClientData
          BY <2>2, <3>4, <4>2, SlotTyped
        <4>4. e \in ClientData
          BY <4>2, <4>3, SlotUpdatesTyped
        <4>5. /\ e.fd = f /\ e.age = 0 /\ e.idle = 0 /\ e.state = "start" /\ ~e.sending
              /\ ~e.proxy_active /\ e.is_http = FALSE /\ e.peer = c.peer
          BY <3>5, <3>6, <3>11, <4>2, <4>3 DEF ClientData
        <4> HIDE DEF e
        <4>6. /\ U \in Tables /\ U.open = R.open /\ U.fd_to_index = R.fd_to_index
              /\ U.clients[k] = e /\ \A j \in Slots \ {k} : U.clients[j] = R.clients[j]
          <5>1. U = [R EXCEPT !.clients[k] = e]
            BY <4>1, <4>2 DEF WithConn
          <5> DEFINE x == [R.clients EXCEPT ![k] = e]
          <5>2. R.clients \in [Slots -> ClientData]
            BY <4>2 DEF Tables
          <5>3. x \in [Slots -> ClientData] /\ x[k] = e /\ \A j \in Slots \ {k} : x[j] = R.clients[j]
            BY <2>2, <4>4, <5>2
          <5>4. U = [R EXCEPT !.clients = x]
            BY <5>1
          <5> HIDE DEF x
          <5>5. U.clients = x /\ U.open = R.open /\ U.fd_to_index = R.fd_to_index
            BY <4>2, <5>4 DEF Tables
          <5>6. U \in Tables
            BY <4>2, <5>3, <5>4 DEF Tables
          <5> QED
            BY <5>3, <5>5, <5>6
        <4>7. \A g \in Fds : get_conn(U, g) = get_conn(R, g)
          BY <4>6 DEF get_conn
        <4>8. Entered(T, U, f, k)
          <5>1. f \in Fds \ T.open /\ k \in Slots /\ T.clients[k].fd = 0
            BY <3>8 DEF Entered
          <5>2. U.open = T.open \cup {f} /\ get_conn(U, f) = k
            BY <3>8, <4>2, <4>6, <4>7, <5>1 DEF Entered
          <5>3. \A g \in Fds \ {f} : get_conn(U, g) = get_conn(T, g)
            BY <3>8, <4>7 DEF Entered
          <5>4. \A j \in Slots \ {k} : U.clients[j] = T.clients[j]
            BY <3>8, <4>6 DEF Entered
          <5> QED
            BY <4>5, <4>6, <5>1, <5>2, <5>3, <5>4 DEF Entered
        <4> QED
          BY <2>2, <4>5, <4>6, <4>8, EnteredTouches
      <3> QED
        BY <3>9, <3>10, <3>11
    <2> QED
      BY <2>9, <2>10
  <1> QED
    BY <1>1, <1>2

(* c is what a handler leaves of the connection d that it keeps.              *)
Continues(d, c) ==
  /\ c \in ClientData /\ c.fd = d.fd /\ c.age = d.age /\ Flags(c)
  /\ \A l \in Nat : Late(c, l) => Late(d, l)

\* No handler makes a connection late: what it renews is not due, and what it does
\* not renew was as late before.
LEMMA HandlersContinue ==
  ASSUME NEW d \in ClientData, Flags(d)
  PROVE  /\ \A s \in {"head", "body"} :
              ~d.forward_active /\ (d.state = "body" => s = "body") =>
                Continues(d, [d EXCEPT !.state = s, !.idle = 0])
         /\ d.sending => Continues(d, [http_parser_reset(d) EXCEPT !.sending = FALSE])
         /\ Continues(d, [d EXCEPT !.idle = 0])
         /\ Continues(d, [d EXCEPT !.forward_active = FALSE, !.idle = 0])
  <1>0. /\ d.idle \in 0..AgeCap /\ d.age \in 0..AgeCap /\ 0 <= d.age
        /\ \A l \in Nat : IdleTimeout > 0 => 0 # IdleTimeout + l
    BY TimeFacts DEF ClientData
  <1>1. ASSUME NEW s \in {"head", "body"}, ~d.forward_active, d.state = "body" => s = "body"
        PROVE  Continues(d, [d EXCEPT !.state = s, !.idle = 0])
    <2> DEFINE c == [d EXCEPT !.state = s, !.idle = 0]
    <2>1. c \in ClientData
      BY SlotUpdatesTyped DEF ParserStates
    <2>2. /\ c.fd = d.fd /\ c.age = d.age /\ c.idle = 0 /\ c.state = s /\ c.is_http = d.is_http
          /\ c.served = d.served /\ c.sending = d.sending /\ c.proxy_active = d.proxy_active
          /\ c.forward_active = d.forward_active
      BY DEF ClientData
    <2> HIDE DEF c
    <2>3. Flags(c)
      BY <1>0, <1>1, <2>2 DEF Flags
    <2>4. Headless(c) => Headless(d)
      <3>1. d.state \in ParserStates
        BY DEF ClientData
      <3> QED
        BY <1>1, <2>2, <3>1 DEF Headless, Flags, ParserStates
    <2>5. \A l \in Nat : Late(c, l) => Late(d, l)
      BY <1>0, <2>2, <2>4 DEF Late
    <2> QED
      BY <2>1, <2>2, <2>3, <2>5 DEF Continues, c
  <1>2. ASSUME d.sending
        PROVE  Continues(d, [http_parser_reset(d) EXCEPT !.sending = FALSE])
    <2> DEFINE r == http_parser_reset(d)
               c == [r EXCEPT !.sending = FALSE]
    <2>1. r \in ClientData
      BY SlotUpdatesTyped
    <2>2. /\ r.fd = d.fd /\ r.age = d.age /\ r.idle = d.idle /\ r.state = "start"
          /\ r.is_http = d.is_http /\ r.served = d.served /\ r.proxy_active = d.proxy_active
          /\ r.forward_active = d.forward_active
      BY DEF ClientData, http_parser_reset
    <2> HIDE DEF r
    <2>3. c \in ClientData
      BY <2>1, SlotUpdatesTyped
    <2>4. /\ c.fd = d.fd /\ c.age = d.age /\ c.idle = d.idle /\ c.state = "start"
          /\ c.is_http = d.is_http /\ c.served = d.served /\ c.proxy_active = d.proxy_active
          /\ c.forward_active = d.forward_active /\ c.sending = FALSE
      BY <2>1, <2>2 DEF ClientData
    <2> HIDE DEF c
    <2>5. Flags(c) /\ ~Headless(c)
      BY <1>2, <2>4 DEF Flags, Headless
    <2>6. \A l \in Nat : Late(c, l) => Late(d, l)
      BY <2>4, <2>5 DEF Late
    <2> QED
      BY <2>3, <2>4, <2>5, <2>6 DEF Continues, c, r
  <1>3. Continues(d, [d EXCEPT !.idle = 0])
    <2> DEFINE c == [d EXCEPT !.idle = 0]
    <2>1. c \in ClientData
      BY SlotUpdatesTyped
    <2>2. /\ c.fd = d.fd /\ c.age = d.age /\ c.idle = 0 /\ c.state = d.state
          /\ c.is_http = d.is_http /\ c.served = d.served /\ c.sending = d.sending
          /\ c.proxy_active = d.proxy_active /\ c.forward_active = d.forward_active
      BY DEF ClientData
    <2> HIDE DEF c
    <2>3. Flags(c)
      BY <1>0, <2>2 DEF Flags
    <2>4. \A l \in Nat : Late(c, l) => Late(d, l)
      BY <1>0, <2>2 DEF Late, Headless
    <2> QED
      BY <2>1, <2>2, <2>3, <2>4 DEF Continues, c
  <1>4. Continues(d, [d EXCEPT !.forward_active = FALSE, !.idle = 0])
    <2> DEFINE c == [d EXCEPT !.forward_active = FALSE, !.idle = 0]
    <2>1. c \in ClientData
      BY SlotUpdatesTyped
    <2>2. /\ c.fd = d.fd /\ c.age = d.age /\ c.idle = 0 /\ c.state = d.state
          /\ c.is_http = d.is_http /\ c.served = d.served /\ c.sending = d.sending
          /\ c.proxy_active = d.proxy_active /\ c.forward_active = FALSE
      BY DEF ClientData
    <2> HIDE DEF c
    <2>3. Flags(c)
      BY <1>0, <2>2 DEF Flags
    <2>4. \A l \in Nat : Late(c, l) => Late(d, l)
      <3>1. d.forward_active \in BOOLEAN /\ (d.forward_active => ~d.is_http)
        BY DEF ClientData, Flags
      <3> QED
        BY <1>0, <2>2, <3>1 DEF Late, Headless
    <2> QED
      BY <2>1, <2>2, <2>3, <2>4 DEF Continues, c
  <1> QED
    BY <1>1, <1>2, <1>3, <1>4

\* http_dispatcher renews last_activity and counts the connection as served.
LEMMA DispatchContinues ==
  ASSUME NEW d \in ClientData, Flags(d), ~d.forward_active, NEW ka \in BOOLEAN,
         NEW c, c = [d EXCEPT !.state = "done", !.ka = ka, !.idle = 0, !.served = TRUE],
         NEW r, r = IF ka THEN http_parser_reset(c) ELSE c
  PROVE  Continues(d, r) /\ Continues(d, [r EXCEPT !.sending = TRUE])
  <1>0. 0 <= d.age /\ \A l \in Nat : IdleTimeout > 0 => 0 # IdleTimeout + l
    BY TimeFacts DEF ClientData
  <1>1. c \in ClientData /\ r \in ClientData
    <2>1. c \in ClientData
      BY SlotUpdatesTyped DEF ParserStates
    <2> QED
      BY <2>1, SlotUpdatesTyped
  <1>2. /\ c.fd = d.fd /\ c.age = d.age /\ c.idle = 0 /\ c.served = TRUE
        /\ c.is_http = d.is_http /\ c.sending = d.sending
        /\ c.proxy_active = d.proxy_active /\ c.forward_active = d.forward_active
    BY DEF ClientData
  <1>3. /\ r.fd = d.fd /\ r.age = d.age /\ r.idle = 0 /\ r.served = TRUE
        /\ r.is_http = d.is_http /\ r.sending = d.sending
        /\ r.proxy_active = d.proxy_active /\ r.forward_active = d.forward_active
    BY <1>1, <1>2 DEF ClientData, http_parser_reset
  <1>4. Flags(r) /\ ~Headless(r)
    BY <1>0, <1>3 DEF Flags, Headless
  <1>5. \A l \in Nat : ~Late(r, l)
    BY <1>0, <1>3, <1>4 DEF Late
  <1>6. Continues(d, r)
    BY <1>1, <1>3, <1>4, <1>5 DEF Continues
  <1>7. ASSUME NEW e, e = [r EXCEPT !.sending = TRUE] PROVE Continues(d, e)
    <2>1. e \in ClientData
      BY <1>1, <1>7, SlotUpdatesTyped
    <2>2. /\ e.fd = d.fd /\ e.age = d.age /\ e.idle = 0 /\ e.served = TRUE
          /\ e.is_http = d.is_http /\ e.sending = TRUE
          /\ e.proxy_active = d.proxy_active /\ e.forward_active = d.forward_active
      BY <1>1, <1>3, <1>7 DEF ClientData
    <2>3. Flags(e) /\ ~Headless(e)
      BY <1>0, <2>2 DEF Flags, Headless
    <2>4. \A l \in Nat : ~Late(e, l)
      BY <1>0, <2>2, <2>3 DEF Late
    <2> QED
      BY <2>1, <2>2, <2>3, <2>4 DEF Continues
  <1> QED
    BY <1>6, <1>7

Moves(T, U) == U = T \/ \E f \in Fds, k \in Slots : Touches(T, U, f, k)

\* The slot of a live connection is the one its descriptor leads to.
LEMMA LiveFacts ==
  ASSUME TableInv(tab), Sound(tab, uptime), NEW f \in Fds, Live(f)
  PROVE  /\ f \in tab.open \cap Mapped(tab) /\ get_conn(tab, f) \in Slots
         /\ Conn(tab, f) \in ClientData /\ Conn(tab, f).fd = f /\ Flags(Conn(tab, f))
  <1>1. f \in tab.open \cap Mapped(tab) /\ get_conn(tab, f) \in Slots
    BY DEF Live, TableInv, Tables, Mapped, get_conn
  <1>2. Conn(tab, f) \in ClientData /\ Conn(tab, f).fd = f
    BY <1>1, SlotTyped DEF Conn, TableInv, Consistent
  <1>3. Flags(Conn(tab, f))
    BY <1>1 DEF Sound, SlotOK, Conn
  <1> QED
    BY <1>1, <1>2, <1>3

\* A handler that keeps a live connection touches its slot only.
LEMMA KeptMoves ==
  ASSUME TableInv(tab), Sound(tab, uptime), NEW f \in Fds, Live(f),
         NEW c, Continues(Conn(tab, f), c)
  PROVE  Moves(tab, WithConn(tab, f, c))
  <1>1. /\ f \in tab.open \cap Mapped(tab) /\ get_conn(tab, f) \in Slots
        /\ Conn(tab, f).fd = f
    BY LiveFacts
  <1>2. /\ c \in ClientData /\ c.fd = f /\ Flags(c) /\ c.age = Conn(tab, f).age
        /\ \A l \in Nat : Late(c, l) => Late(Conn(tab, f), l)
    BY <1>1 DEF Continues
  <1>3. Touches(tab, WithConn(tab, f, c), f, get_conn(tab, f))
    BY <1>1, <1>2, WithConnTouches
  <1> QED
    BY <1>1, <1>3 DEF Moves

\* A handler that ends the connection touches its slot only.
LEMMA EndedMoves ==
  ASSUME TableInv(tab), Sound(tab, uptime), NEW f \in Fds, Live(f),
         ~Conn(tab, f).forward_active
  PROVE  Moves(tab, conn_del(tab, {f}))
  <1>1. /\ f \in tab.open \cap Mapped(tab) /\ get_conn(tab, f) \in Slots
        /\ ~Conn(tab, f).proxy_active /\ tab \in Tables
    BY LiveFacts DEF Flags, TableInv
  <1>2. Touches(tab, conn_del(tab, {f}), f, get_conn(tab, f))
    BY <1>1, ConnDelTouches
  <1> QED
    BY <1>1, <1>2 DEF Moves

\* Every event touches at most one slot.
LEMMA EventMoves ==
  ASSUME IInv, Sound(tab, uptime), FALSE \notin FwdReachable, Event
  PROVE  \E U : Step(U) /\ Moves(tab, U)
  <1>0. TableInv(tab) /\ tab \in Tables
    BY DEF IInv, TableInv
  <1>1. ASSUME NEW p \in Remotes, NEW l \in Listeners, NEW setup \in BOOLEAN,
               NEW r \in FwdReachable, Accept(p, l, setup, r)
        PROVE  \E U : Step(U) /\ Moves(tab, U)
    <2>1. PICK f \in KernelFd(tab) : Step(Accepted(tab, f, p, l, setup, r))
      BY <1>1 DEF Accept
    <2>2. f \in Fds \ tab.open /\ p \in Peers
      BY ConfigAssumption DEF KernelFd, Peers
    <2>3. r = TRUE
      BY ConfigAssumption
    <2> DEFINE U == Accepted(tab, f, p, l, setup, TRUE)
    <2>4. Step(U)
      BY <2>1, <2>3
    <2>5. U = tab \/ \E k \in Slots : Touches(tab, U, f, k)
      BY <1>0, <2>2, AcceptTouches
    <2> HIDE DEF U
    <2>6. Moves(tab, U)
      BY <2>2, <2>5 DEF Moves
    <2> QED
      BY <2>4, <2>6
  <1>2. ASSUME NEW f \in Fds, NEW s \in {"head", "body"}, HttpPartial(f, s)
        PROVE  \E U : Step(U) /\ Moves(tab, U)
    <2> DEFINE c == [Conn(tab, f) EXCEPT !.state = s, !.idle = 0]
    <2>1. Live(f) /\ Step(WithConn(tab, f, c)) /\ ~Conn(tab, f).forward_active
          /\ (Conn(tab, f).state = "body" => s = "body")
      BY <1>2 DEF HttpPartial, HttpReadable, Readable
    <2>2. Conn(tab, f) \in ClientData /\ Flags(Conn(tab, f))
      BY <1>0, <2>1, LiveFacts
    <2>3. Continues(Conn(tab, f), c)
      BY <2>1, <2>2, HandlersContinue
    <2> HIDE DEF c
    <2> QED
      BY <1>0, <2>1, <2>3, KeptMoves
  <1>3. ASSUME NEW f \in Fds, HttpBad(f)
        PROVE  \E U : Step(U) /\ Moves(tab, U)
    <2>1. Live(f) /\ Step(conn_del(tab, {f})) /\ ~Conn(tab, f).forward_active
      BY <1>3 DEF HttpBad, HttpReadable, Readable
    <2> QED
      BY <1>0, <2>1, EndedMoves
  <1>4. ASSUME NEW f \in Fds, NEW ka \in BOOLEAN, NEW sent \in {"all", "part", "fail"},
               HttpRequest(f, ka, sent)
        PROVE  \E U : Step(U) /\ Moves(tab, U)
    <2> DEFINE c == [Conn(tab, f) EXCEPT !.state = "done", !.ka = ka, !.idle = 0, !.served = TRUE]
               r == IF ka THEN http_parser_reset(c) ELSE c
               e == [r EXCEPT !.sending = TRUE]
    <2>1. Live(f) /\ Step(Dispatched(tab, f, ka, sent)) /\ ~Conn(tab, f).forward_active
      BY <1>4 DEF HttpRequest, HttpReadable, Readable
    <2>2. Conn(tab, f) \in ClientData /\ Flags(Conn(tab, f))
      BY <1>0, <2>1, LiveFacts
    <2>3. Continues(Conn(tab, f), r) /\ Continues(Conn(tab, f), e)
      <3>1. ASSUME NEW cc, cc = c, NEW rr, rr = IF ka THEN http_parser_reset(cc) ELSE cc
            PROVE  Continues(Conn(tab, f), rr) /\ Continues(Conn(tab, f), [rr EXCEPT !.sending = TRUE])
        BY <2>1, <2>2, <3>1, DispatchContinues
      <3> QED
        BY <3>1
    <2>4. Dispatched(tab, f, ka, sent) \in
            {conn_del(tab, {f}), WithConn(tab, f, r), WithConn(tab, f, e)}
      <3>1. CASE sent = "all"
        BY <3>1 DEF Dispatched
      <3>2. CASE sent = "part"
        BY <3>2 DEF Dispatched
      <3>3. CASE sent = "fail"
        BY <3>3 DEF Dispatched
      <3> QED
        BY <3>1, <3>2, <3>3
    <2> HIDE DEF c, r, e
    <2>5. Moves(tab, conn_del(tab, {f})) /\ Moves(tab, WithConn(tab, f, r))
          /\ Moves(tab, WithConn(tab, f, e))
      BY <1>0, <2>1, <2>3, EndedMoves, KeptMoves
    <2> QED
      BY <2>1, <2>4, <2>5
  <1>5. ASSUME NEW f \in Fds, NEW ok \in BOOLEAN, resume_send(f, ok)
        PROVE  \E U : Step(U) /\ Moves(tab, U)
    <2> DEFINE c == [http_parser_reset(Conn(tab, f)) EXCEPT !.sending = FALSE]
    <2>1. Live(f) /\ Step(IF ok THEN SendFinished(tab, f) ELSE conn_del(tab, {f}))
          /\ Conn(tab, f).sending
      BY <1>5 DEF resume_send
    <2>2. Conn(tab, f) \in ClientData /\ Flags(Conn(tab, f))
      BY <1>0, <2>1, LiveFacts
    <2>3. Continues(Conn(tab, f), c)
      BY <2>1, <2>2, HandlersContinue
    <2>4. ~Conn(tab, f).forward_active
      BY <2>1, <2>2 DEF Flags
    <2>5. (IF ok THEN SendFinished(tab, f) ELSE conn_del(tab, {f})) \in
            {conn_del(tab, {f}), WithConn(tab, f, c)}
      BY DEF SendFinished
    <2> HIDE DEF c
    <2>6. Moves(tab, conn_del(tab, {f})) /\ Moves(tab, WithConn(tab, f, c))
      BY <1>0, <2>1, <2>3, <2>4, EndedMoves, KeptMoves
    <2> QED
      BY <2>1, <2>5, <2>6
  <1>6. ASSUME NEW f \in Fds, RawRead(f)
        PROVE  \E U : Step(U) /\ Moves(tab, U)
    <2> DEFINE c == [Conn(tab, f) EXCEPT !.idle = 0]
    <2>1. Live(f) /\ Step(WithConn(tab, f, c))
      BY <1>6 DEF RawRead, Readable
    <2>2. Conn(tab, f) \in ClientData /\ Flags(Conn(tab, f))
      BY <1>0, <2>1, LiveFacts
    <2>3. Continues(Conn(tab, f), c)
      BY <2>2, HandlersContinue
    <2> HIDE DEF c
    <2> QED
      BY <1>0, <2>1, <2>3, KeptMoves
  <1>7. ASSUME NEW f \in Fds, ForwardSendError(f)
        PROVE  \E U : Step(U) /\ Moves(tab, U)
    <2> DEFINE c == [Conn(tab, f) EXCEPT !.forward_active = FALSE, !.idle = 0]
    <2>1. Live(f) /\ Step(WithConn(tab, f, c))
      BY <1>7 DEF ForwardSendError, Readable
    <2>2. Conn(tab, f) \in ClientData /\ Flags(Conn(tab, f))
      BY <1>0, <2>1, LiveFacts
    <2>3. Continues(Conn(tab, f), c)
      BY <2>2, HandlersContinue
    <2> HIDE DEF c
    <2> QED
      BY <1>0, <2>1, <2>3, KeptMoves
  <1>8. ASSUME NEW f \in Fds, Disconnect(f)
        PROVE  \E U : Step(U) /\ Moves(tab, U)
    <2> DEFINE k == get_conn(tab, f)
               c == [Conn(tab, f) EXCEPT !.forward_active = FALSE]
               V == WithConn(tab, f, c)
    <2>1. Live(f) /\ Step(conn_del(V, {f}))
      BY <1>8 DEF Disconnect, Readable
    <2>2. /\ Conn(tab, f) \in ClientData /\ Flags(Conn(tab, f)) /\ k \in Slots
          /\ f \in tab.open \cap Mapped(tab)
      BY <1>0, <2>1, LiveFacts
    <2>3. c \in ClientData /\ ~c.forward_active /\ ~c.proxy_active
      <3>1. c \in ClientData
        BY <2>2, SlotUpdatesTyped
      <3> QED
        BY <2>2, <3>1 DEF ClientData, Flags
    <2>4. /\ V \in Tables /\ V.open = tab.open /\ V.fd_to_index = tab.fd_to_index
          /\ V.clients[k] = c /\ \A j \in Slots \ {k} : V.clients[j] = tab.clients[j]
      <3> HIDE DEF c
      <3>1. V = [tab EXCEPT !.clients[k] = c]
        BY DEF WithConn
      <3> HIDE DEF V, k
      <3> QED
        BY <1>0, <2>2, <2>3, <3>1 DEF Tables
    <2> HIDE DEF c, V
    <2>5. get_conn(V, f) = get_conn(tab, f) /\ Conn(V, f) = c
      BY <2>4 DEF get_conn, Conn
    <2>6. Touches(tab, conn_del(V, {f}), f, k)
      BY <1>0, <2>2, <2>3, <2>4, <2>5, ConnDelTouches
    <2> QED
      BY <2>1, <2>2, <2>6 DEF Moves
  <1> QED
    BY <1>1, <1>2, <1>3, <1>4, <1>5, <1>6, <1>7, <1>8 DEF Event

\* An event keeps the invariant.
LEMMA EventKeepsTInv ==
  ASSUME TInv, FALSE \notin FwdReachable, Event
  PROVE  TInv'
  <1>0. IInv /\ Sound(tab, uptime) /\ Backlog(tab, swept, budget)
    BY DEF TInv
  <1>1. PICK U : Step(U) /\ Moves(tab, U)
    BY <1>0, EventMoves
  <1>2. IInv'
    BY <1>0, EventPreserves
  <1>3. tab \in Tables /\ tab' \in Tables /\ uptime \in [Fds -> 0..AgeCap]
        /\ swept \in BOOLEAN /\ budget \in Nat
    BY <1>0, <1>2, TimeFacts DEF IInv, TypeOK
  <1>4. tab' = U /\ budget > 0 /\ budget' = budget - 1 /\ swept' = swept
        /\ uptime' = Uptimes(tab, U, uptime)
    BY <1>1 DEF Step, Uptimes
  <1>5. CASE U = tab
    <2>1. Sound(tab, uptime')
      <3>1. \A g \in Fds : uptime'[g] = IF g \in tab.open THEN uptime[g] ELSE 0
        BY <1>4, <1>5 DEF Uptimes
      <3>2. \A i \in Slots : tab.clients[i].fd # 0 => tab.clients[i].fd \in Fds
        BY <1>3, SlotTyped
      <3> QED
        BY <1>0, <3>1, <3>2 DEF Sound, SlotOK
    <2>2. Backlog(tab, swept, budget - 1)
      <3> SUFFICES ASSUME SweepMax > MaxEvents, NEW i \in Slots, NEW l \in Nat,
                          Late(tab.clients[i], l)
                   PROVE  Behind(tab, swept, budget - 1, i, l)
        BY DEF Backlog
      <3>1. Behind(tab, swept, budget, i, l)
        BY <1>0 DEF Backlog
      <3>2. PICK x \in Nat : x = Cardinality(Occupied(tab, i))
        BY SlotSetsFinite DEF Occupied
      <3>3. Drain * (l + 1) \in Int /\ Drain * l \in Int /\ i \in Int
        BY TimeFacts DEF Drain, Slots
      <3>4. \A m \in Int : m + x + budget <= i - 1 => m + x + (budget - 1) <= i - 1
        BY <1>3, <3>3
      <3> QED
        BY <3>1, <3>2, <3>3, <3>4 DEF Behind
    <2>3. Sound(tab', uptime') /\ Backlog(tab', swept', budget')
      BY <1>4, <1>5, <2>1, <2>2
    <2> QED
      BY <1>2, <2>3 DEF TInv
  <1>6. CASE \E f \in Fds, k \in Slots : Touches(tab, U, f, k)
    <2>1. PICK f \in Fds, k \in Slots : Touches(tab, U, f, k)
      BY <1>6
    <2>2. Sound(U, Uptimes(tab, U, uptime)) /\ Backlog(U, swept, budget - 1)
      BY <1>0, <1>3, <1>4, <2>1, TouchedSound, TouchedBacklog
    <2>3. Sound(tab', uptime') /\ Backlog(tab', swept', budget')
      BY <1>4, <2>2
    <2> QED
      BY <1>2, <2>3 DEF TInv
  <1> QED
    BY <1>1, <1>5, <1>6 DEF Moves

-----------------------------------------------------------------------------
(* One second.                                                               *)

\* Older is monotone, and undone by one second less unless the age is saturated.
LEMMA OlderFacts ==
  /\ \A m, n \in 0..AgeCap : m <= n => Older(m) <= Older(n)
  /\ \A n \in 0..AgeCap, t, l \in Nat : l > 0 /\ Older(n) = t + l => n = t + (l - 1) \/ n = t + l
  BY TimeFacts DEF Older

\* The slots after a second.
LEMMA TickSlots ==
  ASSUME IInv, Tick, NEW i \in Slots
  PROVE  /\ tab.clients[i].fd = 0 => tab'.clients[i] = tab.clients[i]
         /\ tab.clients[i].fd # 0 =>
              /\ tab'.clients[i].age = Older(tab.clients[i].age)
              /\ tab'.clients[i].idle = Older(tab.clients[i].idle)
         /\ tab'.clients[i].fd = tab.clients[i].fd
         /\ tab'.clients[i].is_http = tab.clients[i].is_http
         /\ tab'.clients[i].state = tab.clients[i].state
         /\ tab'.clients[i].served = tab.clients[i].served
         /\ tab'.clients[i].sending = tab.clients[i].sending
         /\ tab'.clients[i].proxy_active = tab.clients[i].proxy_active
         /\ tab'.clients[i].forward_active = tab.clients[i].forward_active
  <1> DEFINE e == [tab.clients[i] EXCEPT !.age = Older(@), !.idle = Older(@)]
  <1>1. tab \in Tables /\ tab.clients[i] \in ClientData
    BY SlotTyped DEF IInv, TypeOK
  <1>2. tab'.clients[i] = IF tab.clients[i].fd = 0 THEN tab.clients[i] ELSE e
    BY <1>1 DEF Tick, Tables
  <1>3. /\ e.age = Older(tab.clients[i].age) /\ e.idle = Older(tab.clients[i].idle)
        /\ e.fd = tab.clients[i].fd /\ e.is_http = tab.clients[i].is_http
        /\ e.state = tab.clients[i].state /\ e.served = tab.clients[i].served
        /\ e.sending = tab.clients[i].sending
        /\ e.proxy_active = tab.clients[i].proxy_active
        /\ e.forward_active = tab.clients[i].forward_active
    BY <1>1 DEF ClientData
  <1> HIDE DEF e
  <1> QED
    BY <1>2, <1>3

\* A second makes what was l - 1 seconds late l seconds late, and opens or closes nothing.
LEMMA TickKeepsTInv ==
  ASSUME TInv, Tick
  PROVE  TInv'
  <1>0. IInv /\ Sound(tab, uptime) /\ Backlog(tab, swept, budget) /\ swept /\ ~swept'
        /\ budget' = budget /\ tab \in Tables /\ uptime \in [Fds -> 0..AgeCap] /\ budget \in Nat
    <2>1. IInv /\ Sound(tab, uptime) /\ Backlog(tab, swept, budget)
      BY DEF TInv
    <2>2. swept /\ ~swept' /\ budget' = budget
      BY DEF Tick
    <2>3. tab \in Tables /\ uptime \in [Fds -> 0..AgeCap] /\ budget \in Nat
      BY <2>1, TimeFacts DEF IInv, TypeOK
    <2> QED
      BY <2>1, <2>2, <2>3
  <1>1. IInv'
    BY <1>0, TickPreserves
  <1>2. tab'.open = tab.open /\ tab'.fd_to_index = tab.fd_to_index
    BY <1>0 DEF Tick, Tables
  <1>3. \A g \in Fds : get_conn(tab', g) = get_conn(tab, g)
    BY <1>2 DEF get_conn
  <1>4. Sound(tab', uptime')
    <2> SUFFICES ASSUME NEW i \in Slots PROVE SlotOK(tab', uptime', i)
      BY DEF Sound
    <2>1. SlotOK(tab, uptime, i) /\ tab.clients[i].fd \in {0} \cup Fds
          /\ tab.clients[i].age \in 0..AgeCap /\ tab.clients[i].idle \in 0..AgeCap
      BY <1>0, SlotTyped DEF Sound
    <2>2. CASE tab.clients[i].fd = 0
      BY <1>0, <2>1, <2>2, TickSlots DEF SlotOK
    <2>3. CASE tab.clients[i].fd # 0
      <3> DEFINE g == tab.clients[i].fd
      <3>1. g \in Fds /\ g \in tab.open /\ get_conn(tab, g) = i /\ tab.clients[i].age <= uptime[g]
            /\ tab.clients[i].idle <= tab.clients[i].age /\ uptime[g] \in 0..AgeCap
        BY <1>0, <2>1, <2>3 DEF SlotOK, Flags
      <3>2. uptime'[g] = Older(uptime[g])
        BY <3>1 DEF Tick
      <3>3. /\ tab'.clients[i].age = Older(tab.clients[i].age)
            /\ tab'.clients[i].idle = Older(tab.clients[i].idle)
            /\ tab'.clients[i].fd = g
        BY <1>0, <2>3, TickSlots
      <3>4. tab'.clients[i].age <= uptime'[g] /\ tab'.clients[i].idle <= tab'.clients[i].age
        BY <2>1, <3>1, <3>2, <3>3, OlderFacts
      <3>5. Flags(tab'.clients[i])
        BY <1>0, <2>1, <3>4, TickSlots DEF Flags, SlotOK
      <3> HIDE DEF g
      <3> QED
        BY <1>2, <1>3, <3>1, <3>3, <3>4, <3>5 DEF SlotOK
    <2> QED
      BY <2>2, <2>3
  <1>5. Backlog(tab', swept', budget')
    <2> SUFFICES ASSUME SweepMax > MaxEvents, NEW i \in Slots, NEW l \in Nat,
                        Late(tab'.clients[i], l), l > 0
                 PROVE  Drain * l + Cardinality(Occupied(tab', i)) + budget <= i - 1
      BY <1>0 DEF Backlog, Behind
    <2>1. Occupied(tab', i) = Occupied(tab, i)
      BY <1>0, TickSlots DEF Occupied
    <2>2. PICK x \in Nat : x = Cardinality(Occupied(tab, i))
      BY SlotSetsFinite DEF Occupied
    <2>3. Late(tab.clients[i], l - 1) \/ Late(tab.clients[i], l)
      <3>1. tab.clients[i].age \in 0..AgeCap /\ tab.clients[i].idle \in 0..AgeCap
        BY <1>0, SlotTyped
      <3>2. /\ tab'.clients[i].age = Older(tab.clients[i].age)
            /\ tab'.clients[i].idle = Older(tab.clients[i].idle)
            /\ tab.clients[i].fd # 0 /\ ~tab.clients[i].forward_active
            /\ Headless(tab'.clients[i]) <=> Headless(tab.clients[i])
        BY <1>0, TickSlots DEF Late, Headless
      <3>3. CASE HeaderTimeout > 0 /\ Headless(tab'.clients[i]) /\ tab'.clients[i].age = HeaderTimeout + l
        <4>1. tab.clients[i].age = HeaderTimeout + (l - 1) \/ tab.clients[i].age = HeaderTimeout + l
          BY <3>1, <3>2, <3>3, OlderFacts, TimeFacts
        <4> QED
          BY <3>2, <3>3, <4>1 DEF Late
      <3>4. CASE IdleTimeout > 0 /\ tab'.clients[i].idle = IdleTimeout + l
        <4>1. tab.clients[i].idle = IdleTimeout + (l - 1) \/ tab.clients[i].idle = IdleTimeout + l
          <5>1. Older(tab.clients[i].idle) = IdleTimeout + l /\ IdleTimeout \in Nat
            BY <3>2, <3>4, TimeFacts
          <5> QED
            BY <3>1, <5>1, OlderFacts
        <4> QED
          BY <3>2, <3>4, <4>1 DEF Late
      <3> QED
        BY <3>3, <3>4 DEF Late
    <2>4. Drain * ((l - 1) + 1) = Drain * l /\ Drain * l <= Drain * (l + 1)
          /\ Drain * l \in Int /\ Drain * (l + 1) \in Int /\ i \in Int
      <3>1. PICK d \in Nat : d = Drain
        BY TimeFacts DEF Drain
      <3>2. d * (l + 1) = d * l + d /\ (l - 1) + 1 = l
        BY <3>1
      <3>3. d * l \in Nat /\ i \in Int
        BY <3>1 DEF Slots
      <3> QED
        BY <3>1, <3>2, <3>3
    <2>5. CASE Late(tab.clients[i], l - 1)
      <3>0. l - 1 \in Nat
        OBVIOUS
      <3>1. Behind(tab, swept, budget, i, l - 1)
        BY <1>0, <2>5, <3>0 DEF Backlog
      <3> QED
        BY <1>0, <2>1, <2>4, <3>1 DEF Behind
    <2>6. CASE Late(tab.clients[i], l)
      <3>1. Drain * (l + 1) + Cardinality(Occupied(tab, i)) + budget <= i - 1
        BY <1>0, <2>6 DEF Backlog, Behind
      <3> QED
        BY <1>0, <2>1, <2>2, <2>4, <3>1
    <2> QED
      BY <2>3, <2>5, <2>6
  <1> QED
    BY <1>1, <1>4, <1>5 DEF TInv

-----------------------------------------------------------------------------
(* One sweep.                                                                *)

(* The slots that connection_timeout_sweep closes.                            *)
StaleSlots(T) == {i \in Slots : Stale(T.clients[i])}
Closed(T) == {j \in StaleSlots(T) : Cardinality({k \in StaleSlots(T) : k < j}) < SweepMax}

\* A stale slot that the sweep leaves has a full quota of closed slots below it.
LEMMA QuotaBelow ==
  ASSUME NEW S \in SUBSET Slots, NEW n \in Nat, NEW i \in Slots,
         Cardinality({k \in S : k < i}) >= n
  PROVE  Cardinality({j \in S : Cardinality({k \in S : k < j}) < n /\ j < i}) >= n
  <1> DEFINE A == {k \in S : k < i}
             L == {j \in S : Cardinality({k \in S : k < j}) < n /\ j < i}
  <1>1. CASE A \subseteq L
    <2>1. A = L
      BY <1>1
    <2> QED
      BY <2>1
  <1>2. CASE ~(A \subseteq L)
    <2>1. PICK m \in A \ L : \A j \in A \ L : m <= j
      <3> HIDE DEF L
      <3> QED
        BY <1>2, LeastSlot
    <2> DEFINE B == {k \in S : k < m}
    <2>2. \A s \in Slots : s \in Int
      BY DEF Slots
    <2>3. m \in S /\ m < i
      BY <2>1
    <2>4. ~(Cardinality(B) < n)
      BY <2>1
    <2>5. B \subseteq L
      <3> SUFFICES ASSUME NEW k \in B PROVE k \in L
        OBVIOUS
      <3>1. k \in S /\ k < m
        OBVIOUS
      <3>2. k < i /\ ~(m <= k)
        BY <2>2, <2>3, <3>1
      <3>3. k \in A
        BY <3>1, <3>2
      <3> HIDE DEF A, L, B
      <3> QED
        BY <2>1, <3>2, <3>3
    <2>6. B \in SUBSET Slots /\ L \in SUBSET Slots
      OBVIOUS
    <2> HIDE DEF A, B, L
    <2>7. /\ Cardinality(B) \in Nat /\ Cardinality(L) \in Nat /\ IsFiniteSet(L)
      BY <2>6, SlotSetsFinite
    <2>8. Cardinality(B) <= Cardinality(L)
      BY <2>5, <2>7, FS_Subset
    <2>9. Cardinality(L) >= n
      BY <2>4, <2>7, <2>8
    <2> QED
      BY <2>9 DEF L
  <1> QED
    BY <1>1, <1>2

\* Without forgotten slots, the sweep empties the slots it has chosen and only those,
\* and closes their descriptors and only those.
LEMMA SweepSlots ==
  ASSUME NEW T, TableInv(T), NEW up, Sound(T, up), NEW U, U = connection_timeout_sweep(T)
  PROVE  /\ \A i \in Closed(T) : i \in Slots /\ Stale(T.clients[i]) /\ U.clients[i] = Vacated(T.clients[i])
         /\ \A i \in Slots \ Closed(T) : U.clients[i] = T.clients[i]
         /\ \A f \in T.open \ U.open : \E i \in Closed(T) : T.clients[i].fd = f
         /\ \A i \in Slots \ Closed(T) : T.clients[i].fd # 0 =>
              T.clients[i].fd \in U.open /\ get_conn(U, T.clients[i].fd) = i
  <1> DEFINE F == StaleFds(T)
  <1>1. F = {T.clients[i].fd : i \in Closed(T)}
    BY DEF StaleFds, Closed, StaleSlots
  <1>2. \A i \in Closed(T) : i \in Slots /\ Stale(T.clients[i]) /\ T.clients[i].fd # 0
    BY DEF Closed, StaleSlots, Stale
  <1>3. \A i \in Slots : T.clients[i].fd # 0 =>
          /\ T.clients[i].fd \in T.open /\ get_conn(T, T.clients[i].fd) = i
          /\ T.clients[i].fd \in Fds /\ T.clients[i].fd \in Mapped(T)
    <2>1. \A i \in Slots : T.clients[i].fd # 0 =>
            /\ T.clients[i].fd \in T.open /\ get_conn(T, T.clients[i].fd) = i
      BY DEF Sound, SlotOK
    <2> QED
      BY <2>1 DEF TableInv, Tables, Consistent
  <1>4. U = conn_del(T, F)
    BY DEF connection_timeout_sweep
  <1>5. Deleted(T, F) = Closed(T)
    BY <1>1, <1>2, <1>3 DEF Deleted
  <1> HIDE DEF F
  <1>6. /\ \A i \in Slots : U.clients[i] = IF i \in Closed(T) THEN Vacated(T.clients[i]) ELSE T.clients[i]
        /\ U.open = T.open \ (F \cap Mapped(T))
        /\ \A f \in Fds \ F : get_conn(U, f) = get_conn(T, f)
    BY <1>4, <1>5 DEF conn_del, get_conn
  <1>7. \A i \in Slots \ Closed(T) : T.clients[i].fd # 0 => T.clients[i].fd \notin F
    BY <1>1, <1>2, <1>3
  <1> QED
    BY <1>1, <1>2, <1>3, <1>6, <1>7

\* What is late is stale.
LEMMA LateIsStale ==
  ASSUME NEW c \in ClientData, Flags(c), NEW l \in Nat, Late(c, l)
  PROVE  Stale(c)
  <1>1. c.fd # 0 /\ ~c.forward_active /\ ~c.proxy_active
    BY DEF Late, Flags
  <1>2. CASE HeaderTimeout > 0 /\ Headless(c) /\ c.age = HeaderTimeout + l
    <2>1. c.age >= HeaderTimeout
      BY <1>2, TimeFacts
    <2> QED
      BY <1>1, <1>2, <2>1 DEF Headless, Stale, TimedOut, Expired
  <1>3. CASE IdleTimeout > 0 /\ c.idle = IdleTimeout + l
    <2>1. c.idle >= IdleTimeout
      BY <1>3, TimeFacts
    <2> QED
      BY <1>1, <1>3, <2>1 DEF Stale, TimedOut, Expired
  <1> QED
    BY <1>2, <1>3 DEF Late

\* Below a late connection that a sweep leaves, the sweep has emptied SweepMax slots.
LEMMA SweepEmpties ==
  ASSUME NEW T, TableInv(T), NEW up, Sound(T, up), NEW U, U = connection_timeout_sweep(T),
         NEW i \in Slots, NEW l \in Nat, Late(U.clients[i], l)
  PROVE  /\ Late(T.clients[i], l)
         /\ Cardinality(Occupied(T, i)) \in Nat /\ Cardinality(Occupied(U, i)) \in Nat
         /\ Cardinality(Occupied(T, i)) <= i - 1
         /\ Cardinality(Occupied(U, i)) + SweepMax <= Cardinality(Occupied(T, i))
  <1> DEFINE L == {j \in StaleSlots(T) : Cardinality({k \in StaleSlots(T) : k < j}) < SweepMax /\ j < i}
  <1>0. T \in Tables /\ StaleSlots(T) \in SUBSET Slots
    BY DEF TableInv, StaleSlots
  <1>1. /\ \A j \in Closed(T) : j \in Slots /\ Stale(T.clients[j]) /\ U.clients[j] = Vacated(T.clients[j])
        /\ \A j \in Slots \ Closed(T) : U.clients[j] = T.clients[j]
    BY SweepSlots
  <1>2. \A j \in Closed(T) : U.clients[j].fd = 0
    <2> SUFFICES ASSUME NEW j \in Closed(T) PROVE U.clients[j].fd = 0
      OBVIOUS
    <2>1. T.clients[j] \in ClientData
      BY <1>0, <1>1, SlotTyped
    <2>2. Vacated(T.clients[j]).fd = 0
      BY <2>1, SlotUpdatesTyped
    <2> QED
      BY <1>1, <2>2
  <1>3. i \notin Closed(T) /\ U.clients[i] = T.clients[i]
    BY <1>1, <1>2 DEF Late
  <1>4. Late(T.clients[i], l)
    BY <1>3
  <1>5. i \in StaleSlots(T)
    BY <1>0, <1>4, SlotTyped, LateIsStale DEF Sound, SlotOK, StaleSlots
  <1>6. Cardinality({k \in StaleSlots(T) : k < i}) >= SweepMax
    <2>1. {k \in StaleSlots(T) : k < i} \in SUBSET Slots
      BY <1>0
    <2>2. Cardinality({k \in StaleSlots(T) : k < i}) \in Nat
      BY <2>1, SlotSetsFinite
    <2>3. ~(Cardinality({k \in StaleSlots(T) : k < i}) < SweepMax)
      BY <1>3, <1>5 DEF Closed
    <2> QED
      BY <2>2, <2>3, TimeFacts
  <1>7. Cardinality(L) >= SweepMax
    BY <1>0, <1>6, TimeFacts, QuotaBelow
  <1>8. L = {j \in Closed(T) : j < i}
    BY DEF Closed
  <1> HIDE DEF L
  <1>9. L \in SUBSET Occupied(T, i)
    BY <1>1, <1>8 DEF Occupied, Stale
  <1>10. Occupied(U, i) = Occupied(T, i) \ L
    BY <1>1, <1>2, <1>8 DEF Occupied
  <1>11. /\ IsFiniteSet(Occupied(T, i)) /\ Cardinality(Occupied(T, i)) \in Nat
         /\ Cardinality(Occupied(U, i)) \in Nat /\ Cardinality(L) \in Nat
    <2>1. Occupied(T, i) \in SUBSET Slots /\ Occupied(U, i) \in SUBSET Slots
      BY DEF Occupied
    <2>2. L \in SUBSET Slots
      BY <1>9, <2>1
    <2> QED
      BY <2>1, <2>2, SlotSetsFinite
  <1>12. Cardinality(Occupied(U, i)) = Cardinality(Occupied(T, i)) - Cardinality(L)
    <2>1. Occupied(T, i) \cap L = L
      BY <1>9
    <2>2. Cardinality(Occupied(T, i) \ L)
            = Cardinality(Occupied(T, i)) - Cardinality(Occupied(T, i) \cap L)
      BY <1>11, FS_Difference
    <2> QED
      BY <1>10, <2>1, <2>2
  <1>13. Cardinality(Occupied(T, i)) <= i - 1
    <2>1. i \in Nat /\ i >= 1
      BY TimeFacts DEF Slots
    <2>2. Occupied(T, i) \subseteq 1..(i - 1)
      BY <2>1 DEF Occupied, Slots
    <2>3. IsFiniteSet(1..(i - 1)) /\ Cardinality(1..(i - 1)) = i - 1
      BY <2>1, FS_Interval
    <2> QED
      BY <2>2, <2>3, FS_Subset
  <1>14. Cardinality(Occupied(U, i)) + SweepMax <= Cardinality(Occupied(T, i))
    BY <1>7, <1>11, <1>12, TimeFacts
  <1> QED
    BY <1>4, <1>11, <1>13, <1>14

\* A sweep closes SweepMax slots below every late one that it leaves.
LEMMA SweepKeepsTInv ==
  ASSUME TInv, Sweep
  PROVE  TInv'
  <1>0. IInv /\ Sound(tab, uptime) /\ Backlog(tab, swept, budget)
    BY DEF TInv
  <1>1. TableInv(tab) /\ tab \in Tables /\ uptime \in [Fds -> 0..AgeCap] /\ budget \in Nat
        /\ swept \in BOOLEAN
    BY <1>0, TimeFacts DEF IInv, TypeOK
  <1>2. tab' = connection_timeout_sweep(tab) /\ swept' /\ budget' = MaxEvents
        /\ \A f \in Fds : f \in tab'.open => uptime'[f] = uptime[f]
    BY DEF Sweep
  <1>3. IInv'
    BY <1>0, SweepPreserves
  <1>4. Sound(tab', uptime')
    <2> SUFFICES ASSUME NEW i \in Slots PROVE SlotOK(tab', uptime', i)
      BY DEF Sound
    <2>1. SlotOK(tab, uptime, i) /\ tab.clients[i] \in ClientData
          /\ tab.clients[i].fd \in {0} \cup Fds
      BY <1>0, <1>1, SlotTyped DEF Sound
    <2>2. CASE i \in Closed(tab)
      <3>1. Stale(tab.clients[i]) /\ tab'.clients[i] = Vacated(tab.clients[i])
        BY <1>0, <1>1, <1>2, <2>2, SweepSlots
      <3>2. Flags(tab'.clients[i]) /\ tab'.clients[i].fd = 0
        BY <2>1, <3>1, VacatedFlags DEF Stale
      <3> QED
        BY <3>2 DEF SlotOK
    <2>3. CASE i \notin Closed(tab)
      <3>1. tab'.clients[i] = tab.clients[i]
            /\ (tab.clients[i].fd # 0 =>
                  tab.clients[i].fd \in tab'.open /\ get_conn(tab', tab.clients[i].fd) = i)
        BY <1>0, <1>1, <1>2, <2>3, SweepSlots
      <3> QED
        BY <1>2, <2>1, <3>1 DEF SlotOK
    <2> QED
      BY <2>2, <2>3
  <1>5. Backlog(tab', swept', budget')
    <2> SUFFICES ASSUME SweepMax > MaxEvents, NEW i \in Slots, NEW l \in Nat, Late(tab'.clients[i], l)
                 PROVE  /\ Drain * (l + 1) + Cardinality(Occupied(tab', i)) + MaxEvents <= i - 1
                        /\ Drain * (l + 1) + MaxEvents <= i - 1
      BY <1>2 DEF Backlog, Behind
    <2>1. /\ Late(tab.clients[i], l)
          /\ Cardinality(Occupied(tab, i)) \in Nat /\ Cardinality(Occupied(tab', i)) \in Nat
          /\ Cardinality(Occupied(tab, i)) <= i - 1
          /\ Cardinality(Occupied(tab', i)) + SweepMax <= Cardinality(Occupied(tab, i))
      BY <1>0, <1>1, <1>2, SweepEmpties
    <2>2. Behind(tab, swept, budget, i, l)
      BY <1>0, <2>1 DEF Backlog
    <2>3. PICK x \in Nat : x = Cardinality(Occupied(tab, i))
      BY <2>1
    <2>4. PICK y \in Nat : y = Cardinality(Occupied(tab', i))
      BY <2>1
    <2>5. PICK d \in Nat : d = Drain /\ d + MaxEvents = SweepMax
      BY TimeFacts DEF Drain
    <2>6. x <= i - 1 /\ y + SweepMax <= x /\ i \in Int
      BY <2>1, <2>3, <2>4 DEF Slots
    <2>7. PICK m \in Nat : m = d * l
      BY <2>5
    <2>8. d * (l + 1) = m + d
      BY <2>5, <2>7
    <2>9. m + d + y + MaxEvents <= i - 1
      <3>1. CASE swept
        <4>1. m + d + x + budget <= i - 1
          BY <2>2, <2>3, <2>5, <2>8, <3>1 DEF Behind
        <4> QED
          BY <1>1, <2>5, <2>6, <4>1, TimeFacts
      <3>2. CASE ~swept /\ l > 0
        <4>1. m + x + budget <= i - 1
          BY <2>2, <2>3, <2>5, <2>7, <3>2 DEF Behind
        <4> QED
          BY <1>1, <2>5, <2>6, <4>1, TimeFacts
      <3>3. CASE l = 0
        <4>1. m = 0
          BY <2>5, <2>7, <3>3
        <4> QED
          BY <2>5, <2>6, <4>1, TimeFacts
      <3> QED
        BY <3>1, <3>2, <3>3
    <2>10. m + d + MaxEvents <= i - 1
      BY <2>6, <2>9, TimeFacts
    <2> QED
      BY <2>4, <2>5, <2>8, <2>9, <2>10
  <1> QED
    BY <1>3, <1>4, <1>5 DEF TInv

-----------------------------------------------------------------------------
(* The theorems.                                                             *)

\* With reachable forward targets, TInv holds in every reachable state.
THEOREM TimeInvariance == FALSE \notin FwdReachable /\ Spec => []TInv
  <1> SUFFICES ASSUME FALSE \notin FwdReachable PROVE Spec => []TInv
    OBVIOUS
  <1>1. Init /\ IInv => TInv
    <2> SUFFICES ASSUME Init, IInv PROVE TInv
      OBVIOUS
    <2>1. \A i \in Slots : tab.clients[i] = EmptySlot
      BY DEF Init, EmptyTable
    <2>2. EmptySlot.fd = 0 /\ Flags(EmptySlot)
      BY TimeFacts DEF EmptySlot, Flags
    <2>3. Sound(tab, uptime)
      BY <2>1, <2>2 DEF Sound, SlotOK
    <2>4. Backlog(tab, swept, budget)
      BY <2>1, <2>2 DEF Backlog, Late
    <2> QED
      BY <2>3, <2>4 DEF TInv
  <1>2. TInv /\ [Next]_vars => TInv'
    <2> SUFFICES ASSUME TInv, [Next]_vars PROVE TInv'
      OBVIOUS
    <2>1. CASE Event
      BY <2>1, EventKeepsTInv
    <2>2. CASE Tick
      BY <2>2, TickKeepsTInv
    <2>3. CASE Sweep
      BY <2>3, SweepKeepsTInv
    <2>4. CASE UNCHANGED vars
      <3>1. tab' = tab /\ swept' = swept /\ budget' = budget /\ uptime' = uptime
        BY <2>4 DEF vars
      <3>2. IInv /\ Sound(tab, uptime) /\ Backlog(tab, swept, budget)
        BY DEF TInv
      <3>3. Sound(tab', uptime') /\ Backlog(tab', swept', budget')
        BY <3>1, <3>2
      <3>4. IInv'
        <4>1. TypeOK' /\ TableInv(tab')
          BY <3>1, <3>2 DEF IInv, TypeOK
        <4>2. TableInv(tab)'
          BY <4>1 DEF TableInv, Tables, Consistent, CountsExact, WithinLimit, Holding,
                      Mapped, get_conn
        <4> QED
          BY <4>1, <4>2 DEF IInv
      <3> QED
        BY <3>3, <3>4 DEF TInv
    <2> QED
      BY <2>1, <2>2, <2>3, <2>4 DEF Next
  <1> QED
    BY <1>1, <1>2, Invariance, PTL DEF Spec

\* When every forward target is reachable, no connection that a sweep leaves is later
\* than the bound of DeadlinesKept, for any table size, quota, batch and timeouts.
THEOREM DeadlinesAlwaysKept == FALSE \notin FwdReachable /\ Spec => []DeadlinesKept
  <1> SUFFICES ASSUME FALSE \notin FwdReachable PROVE Spec => []DeadlinesKept
    OBVIOUS
  <1>1. TInv => DeadlinesKept
    <2> SUFFICES ASSUME TInv, SweepMax > MaxEvents, swept, NEW i \in Slots, NEW l \in 0..AgeCap,
                        Late(tab.clients[i], l)
                 PROVE  (SweepMax - MaxEvents) * (l + 1) + MaxEvents < NumClients
      BY DEF DeadlinesKept
    <2>1. l \in Nat /\ i \in Int /\ i <= NumClients
      BY TimeFacts DEF Slots
    <2>2. Drain * (l + 1) + MaxEvents <= i - 1
      BY <2>1 DEF TInv, Backlog, Behind
    <2>3. PICK m \in Int : m = Drain * (l + 1) /\ m = (SweepMax - MaxEvents) * (l + 1)
      BY <2>1, TimeFacts DEF Drain
    <2>4. m + MaxEvents < NumClients
      BY <2>1, <2>2, <2>3, TimeFacts
    <2> QED
      BY <2>3, <2>4
  <1> QED
    BY <1>1, TimeInvariance, PTL

-----------------------------------------------------------------------------
(***************************************************************************)
(* What the sweep may close, whether or not forward targets are reachable. *)
(* A slot is either the slot of its own open descriptor, which has been    *)
(* open for at least the slot's age, or one that forward_on_accept left    *)
(* behind, which belongs to a forward listener and so is not HTTP.         *)
(***************************************************************************)

(* Slot i is the one through which its descriptor, which is open, is reached. *)
Owns(T, i) == T.clients[i].fd \in T.open /\ get_conn(T, T.clients[i].fd) = i

SlotAged(T, up, i) ==
  T.clients[i].fd # 0 =>
    /\ T.clients[i].idle <= T.clients[i].age
    /\ Owns(T, i) => T.clients[i].age <= up[T.clients[i].fd]
    /\ ~Owns(T, i) => ~T.clients[i].is_http

Aged(T, up) == \A i \in Slots : SlotAged(T, up, i)

AInv == IInv /\ Aged(tab, uptime)

(* An event turns slot k, and what is known of descriptor f, into U's.        *)
Turns(T, U, f, k) ==
  /\ f \in Fds /\ k \in Slots
  /\ \A j \in Slots \ {k} : U.clients[j] = T.clients[j]
  /\ \A g \in Fds \ {f} : (g \in U.open <=> g \in T.open) /\ get_conn(U, g) = get_conn(T, g)
  /\ \/ f \in T.open /\ get_conn(T, f) = k
     \/ f \notin T.open
  /\ f \in U.open => get_conn(U, f) = k
  /\ U.clients[k].fd # 0 =>
       /\ U.clients[k].fd = f /\ U.clients[k].idle <= U.clients[k].age
       /\ \/ f \in U.open /\ U.clients[k].age = 0
          \/ f \in U.open /\ f \in T.open /\ T.clients[k].fd = f
                          /\ U.clients[k].age = T.clients[k].age
          \/ f \notin U.open /\ ~U.clients[k].is_http

\* The slots that an event leaves alone stay aged, and the one it turns is.
LEMMA TurnedAged ==
  ASSUME NEW T \in Tables, NEW U \in Tables, NEW up \in [Fds -> 0..AgeCap], Aged(T, up),
         NEW f, NEW k, Turns(T, U, f, k)
  PROVE  Aged(U, Uptimes(T, U, up))
  <1> DEFINE up2 == Uptimes(T, U, up)
  <1>1. /\ f \in Fds /\ k \in Slots
        /\ \A j \in Slots \ {k} : U.clients[j] = T.clients[j]
        /\ \A g \in Fds \ {f} : (g \in U.open <=> g \in T.open) /\ get_conn(U, g) = get_conn(T, g)
    BY DEF Turns
  <1>2. \A g \in Fds : up2[g] = IF g \in T.open /\ g \in U.open THEN up[g] ELSE 0
    BY DEF Uptimes
  <1>3. \A g \in Fds : up[g] \in 0..AgeCap
    OBVIOUS
  <1> HIDE DEF up2
  <1>4. ASSUME NEW j \in Slots \ {k}, U.clients[j].fd # 0 PROVE SlotAged(U, up2, j)
    <2> DEFINE g == T.clients[j].fd
    <2>1. SlotAged(T, up, j) /\ U.clients[j] = T.clients[j] /\ g \in Fds /\ g # 0
      BY <1>1, <1>4, SlotTyped DEF Aged
    <2>2. CASE g = f
      <3>1. ~Owns(T, j) /\ ~Owns(U, j)
        BY <2>1, <2>2 DEF Turns, Owns
      <3> QED
        BY <2>1, <3>1 DEF SlotAged
    <2>3. CASE g # f
      <3>1. (Owns(U, j) <=> Owns(T, j)) /\ (Owns(T, j) => up2[g] = up[g])
        BY <1>1, <1>2, <2>1, <2>3 DEF Owns
      <3> QED
        BY <2>1, <3>1 DEF SlotAged
    <2> QED
      BY <2>2, <2>3
  <1>5. ASSUME U.clients[k].fd # 0 PROVE SlotAged(U, up2, k)
    <2>1. U.clients[k].fd = f /\ U.clients[k].idle <= U.clients[k].age
      BY <1>5 DEF Turns
    <2>2. CASE f \in U.open /\ U.clients[k].age = 0
      <3>1. Owns(U, k) /\ 0 <= up2[f]
        BY <1>1, <1>2, <1>3, <2>1, <2>2, TimeFacts DEF Owns, Turns
      <3> QED
        BY <2>1, <2>2, <3>1 DEF SlotAged
    <2>3. CASE f \in U.open /\ f \in T.open /\ T.clients[k].fd = f
               /\ U.clients[k].age = T.clients[k].age
      <3>1. Owns(U, k) /\ Owns(T, k)
        BY <2>1, <2>3 DEF Owns, Turns
      <3>2. T.clients[k].age <= up[f] /\ up2[f] = up[f]
        BY <1>1, <1>2, <1>5, <2>1, <2>3, <3>1 DEF Aged, SlotAged
      <3> QED
        BY <2>1, <2>3, <3>1, <3>2 DEF SlotAged
    <2>4. CASE f \notin U.open /\ ~U.clients[k].is_http
      BY <2>1, <2>4 DEF SlotAged, Owns
    <2> QED
      BY <1>5, <2>2, <2>3, <2>4 DEF Turns
  <1>6. \A i \in Slots : SlotAged(U, up2, i)
    BY <1>4, <1>5 DEF SlotAged
  <1> QED
    BY <1>6 DEF Aged, up2

(* What a handler leaves of a connection d that it keeps, whatever its flags. *)
Carries(d, c) ==
  /\ c \in ClientData /\ c.fd = d.fd /\ c.age = d.age /\ c.idle \in {0, d.idle}

\* The slot of a live connection, in a table that may have orphaned slots.
LEMMA LiveSlot ==
  ASSUME TableInv(tab), NEW f \in Fds, Live(f)
  PROVE  /\ f \in tab.open /\ f \in Mapped(tab) /\ get_conn(tab, f) \in Slots
         /\ Conn(tab, f) \in ClientData /\ Conn(tab, f).fd = f
         /\ Conn(tab, f) = tab.clients[get_conn(tab, f)] /\ tab \in Tables
  <1>1. f \in tab.open \cap Mapped(tab) /\ get_conn(tab, f) \in Slots /\ tab \in Tables
    BY DEF Live, TableInv, Tables, Mapped, get_conn
  <1> QED
    BY <1>1, SlotTyped DEF Conn, TableInv, Consistent

\* A handler that keeps a live connection turns its slot only.
LEMMA KeptTurns ==
  ASSUME TableInv(tab), Aged(tab, uptime), NEW f \in Fds, Live(f),
         NEW c, Carries(Conn(tab, f), c), NEW U, U = WithConn(tab, f, c)
  PROVE  Turns(tab, U, f, get_conn(tab, f))
  <1> DEFINE k == get_conn(tab, f)
  <1>1. /\ f \in tab.open /\ k \in Slots /\ Conn(tab, f) = tab.clients[k]
        /\ Conn(tab, f) \in ClientData /\ Conn(tab, f).fd = f /\ tab \in Tables
    BY LiveSlot
  <1>2. /\ U.clients[k] = c /\ U.open = tab.open /\ U.fd_to_index = tab.fd_to_index
        /\ \A j \in Slots \ {k} : U.clients[j] = tab.clients[j]
    BY <1>1 DEF WithConn, Tables
  <1>3. \A g \in Fds : get_conn(U, g) = get_conn(tab, g)
    BY <1>2 DEF get_conn
  <1>4. c.idle <= c.age
    <2>1. tab.clients[k].idle <= tab.clients[k].age
      BY <1>1, TimeFacts DEF Aged, SlotAged
    <2>2. tab.clients[k].age \in Nat
      BY <1>1, TimeFacts DEF ClientData
    <2> QED
      BY <1>1, <2>1, <2>2 DEF Carries
  <1>5. c.fd = f /\ c.age = tab.clients[k].age
    BY <1>1 DEF Carries
  <1> HIDE DEF k
  <1>6. Turns(tab, U, f, k)
    BY <1>1, <1>2, <1>3, <1>4, <1>5 DEF Turns, k
  <1> QED
    BY <1>6 DEF k

\* A handler that ends a connection turns its slot only; V is the table just before
\* conn_del, in which the slot is the descriptor's.
LEMMA EndedTurns ==
  ASSUME NEW T \in Tables, NEW f \in Fds, NEW k \in Slots, NEW V \in Tables,
         (f \in T.open /\ get_conn(T, f) = k) \/ f \notin T.open,
         get_conn(V, f) = k, \A j \in Slots \ {k} : V.clients[j] = T.clients[j],
         \A g \in Fds \ {f} : (g \in V.open <=> g \in T.open) /\ get_conn(V, g) = get_conn(T, g),
         NEW U, U = conn_del(V, {f})
  PROVE  Turns(T, U, f, k)
  <1>1. f \in Mapped(V)
    BY TimeFacts DEF Mapped
  <1>2. /\ U.clients[k] = Vacated(V.clients[k])
        /\ \A j \in Slots \ {k} : U.clients[j] = V.clients[j]
        /\ U.open = V.open \ {f}
        /\ \A g \in Fds \ {f} : get_conn(U, g) = get_conn(V, g)
    BY <1>1, ConnDelOne
  <1>3. U.clients[k].fd = 0
    <2>1. V.clients[k] \in ClientData
      BY SlotTyped
    <2> QED
      BY <1>2, <2>1 DEF Vacated, ClientData
  <1> QED
    BY <1>2, <1>3 DEF Turns

(* V is T with the new connection f in slot k, of the given kind.             *)
Placed(T, V, f, k, http) ==
  /\ V \in Tables /\ V.open = T.open \cup {f} /\ get_conn(V, f) = k
  /\ \A g \in Fds \ {f} : get_conn(V, g) = get_conn(T, g)
  /\ \A j \in Slots \ {k} : V.clients[j] = T.clients[j]
  /\ V.clients[k].fd = f /\ V.clients[k].age = 0 /\ V.clients[k].idle = 0
  /\ V.clients[k].is_http = http

\* Whatever comes of an accept, one slot is turned: into the slot of a connection of
\* age 0, into a free one, or into one that is left behind and is not HTTP.
LEMMA AcceptTurns ==
  ASSUME NEW T, TableInv(T), NEW f \in Fds \ T.open, NEW p \in Peers,
         NEW l, NEW setup \in BOOLEAN, NEW r \in BOOLEAN,
         NEW U, U = Accepted(T, f, p, l, setup, r)
  PROVE  U = T \/ \E k \in Slots : Turns(T, U, f, k)
  <1> DEFINE k == FirstFree(T)
             B == [T EXCEPT !.open = @ \cup {f}]
             A == conn_add(B, f)
             R == Registered(A, f, p, l)
  <1>1. CASE FreeSlots(T) = {}
    BY <1>1 DEF Accepted
  <1>2. CASE FreeSlots(T) # {}
    <2>1. T \in Tables
      BY DEF TableInv
    <2>2. k \in Slots /\ T.clients[k].fd = 0
      BY <1>2, FirstFreeIsFree DEF FreeSlots
    <2>3. T.clients[k] \in ClientData
      BY <2>1, <2>2, SlotTyped
    <2>4. TableInv(A) /\ f \in Mapped(A) /\ Conn(A, f).peer = NoIp
          /\ A.ip_conn_counts = T.ip_conn_counts
      BY <1>2, ConnAddPreserves
    <2>5. /\ A.open = T.open \cup {f} /\ A.clients[k] = NewClient(T.clients[k], f)
          /\ \A j \in Slots \ {k} : A.clients[j] = T.clients[j]
          /\ A.fd_to_index = [T.fd_to_index EXCEPT ![f] = k]
      <3>1. B \in Tables /\ B.open = T.open \cup {f} /\ B.clients = T.clients
            /\ B.fd_to_index = T.fd_to_index
        BY <2>1 DEF Tables
      <3>2. FirstFree(B) = k
        BY <3>1 DEF FirstFree, FreeSlots
      <3>3. A = [B EXCEPT !.clients[k] = NewClient(T.clients[k], f), !.fd_to_index[f] = k]
        BY <3>1, <3>2 DEF conn_add
      <3> HIDE DEF A, B, k
      <3> QED
        BY <2>2, <3>1, <3>3 DEF Tables
    <2>6. get_conn(A, f) = k /\ \A g \in Fds \ {f} : get_conn(A, g) = get_conn(T, g)
      <3> HIDE DEF A, k
      <3> QED
        BY <2>1, <2>5 DEF get_conn, Tables
    <2>7. /\ A.clients[k].fd = f /\ A.clients[k].age = 0 /\ A.clients[k].idle = 0
          /\ A.clients[k].is_http = FALSE
      <3> HIDE DEF A, k
      <3> QED
        BY <2>3, <2>5 DEF NewClient, ClientData
    <2>8. Placed(T, A, f, k, FALSE)
      <3> HIDE DEF A, k
      <3> QED
        BY <2>2, <2>4, <2>5, <2>6, <2>7 DEF Placed, TableInv
    <2>9. ASSUME NEW V, NEW b, Placed(T, V, f, k, b) PROVE Turns(T, conn_del(V, {f}), f, k)
      <3> HIDE DEF k
      <3>1. /\ V \in Tables /\ get_conn(V, f) = k /\ f \notin T.open
            /\ \A j \in Slots \ {k} : V.clients[j] = T.clients[j]
            /\ \A g \in Fds \ {f} : (g \in V.open <=> g \in T.open) /\ get_conn(V, g) = get_conn(T, g)
        BY <2>9 DEF Placed
      <3> QED
        BY <2>1, <2>2, <3>1, EndedTurns
    <2>10. ASSUME NEW V, NEW b, Placed(T, V, f, k, b) PROVE Turns(T, V, f, k)
      <3> HIDE DEF k
      <3>1. 0 <= 0
        OBVIOUS
      <3> QED
        BY <2>2, <2>10, <3>1 DEF Placed, Turns
    <2>11. CASE AtLimit(T, p)
      <3>1. U = conn_del(A, {f})
        BY <1>2, <2>11 DEF Accepted
      <3> HIDE DEF A, k
      <3> QED
        BY <2>2, <2>8, <2>9, <3>1
    <2>12. CASE ~AtLimit(T, p)
      <3>1. ~AtLimit(A, p)
        BY <2>4, <2>12 DEF AtLimit
      <3> DEFINE c == [A.clients[k] EXCEPT !.peer = p, !.is_http = (l = "http")]
      <3>2. TableInv(R) /\ f \in Mapped(R)
        BY <2>4, <3>1, RegisteredPreserves
      <3>3. A \in Tables /\ A.clients[k] \in ClientData
        BY <2>2, <2>4, SlotTyped DEF TableInv
      <3>4. /\ R.open = A.open /\ R.fd_to_index = A.fd_to_index /\ R.clients[k] = c
            /\ \A j \in Slots \ {k} : R.clients[j] = A.clients[j]
        <4> HIDE DEF A, k
        <4> QED
          BY <2>2, <2>6, <3>3 DEF Registered, WithConn, Conn, Tables
      <3>5. c.fd = f /\ c.age = 0 /\ c.idle = 0 /\ c.is_http = (l = "http")
        <4> HIDE DEF A, k
        <4> QED
          BY <2>7, <3>3 DEF ClientData
      <3> HIDE DEF A, k, c
      <3>6. \A g \in Fds : get_conn(R, g) = get_conn(A, g)
        BY <3>4 DEF get_conn
      <3>7. Placed(T, R, f, k, l = "http")
        <4> HIDE DEF R
        <4> QED
          BY <2>2, <2>5, <2>6, <3>2, <3>4, <3>5, <3>6 DEF Placed, TableInv
      <3>8. CASE ~setup
        <4>1. U = conn_del(R, {f})
          BY <1>2, <2>12, <3>8 DEF Accepted, A
        <4> HIDE DEF R
        <4> QED
          BY <2>2, <2>9, <3>7, <4>1
      <3>9. CASE setup /\ l # "forward"
        <4>1. U = R
          BY <1>2, <2>12, <3>9 DEF Accepted, A
        <4> HIDE DEF R
        <4> QED
          BY <2>2, <2>10, <3>7, <4>1
      <3>10. CASE setup /\ l = "forward" /\ r
        <4> DEFINE e == [Conn(R, f) EXCEPT !.forward_active = TRUE]
        <4>1. U = WithConn(R, f, e)
          BY <1>2, <2>12, <3>10 DEF Accepted, A, forward_on_accept
        <4> HIDE DEF R
        <4>2. R \in Tables /\ get_conn(R, f) = k /\ Conn(R, f) = R.clients[k]
          BY <3>7 DEF Placed, Conn
        <4>3. R.clients[k] \in ClientData
          BY <2>2, <4>2, SlotTyped
        <4>4. e \in ClientData
          BY <4>2, <4>3, SlotUpdatesTyped
        <4>5. /\ e.fd = R.clients[k].fd /\ e.age = R.clients[k].age
              /\ e.idle = R.clients[k].idle /\ e.is_http = R.clients[k].is_http
          BY <4>2, <4>3 DEF ClientData
        <4> HIDE DEF e
        <4>6. U = [R EXCEPT !.clients[k] = e]
          BY <4>1, <4>2 DEF WithConn
        <4>7. /\ U \in Tables /\ U.open = R.open /\ U.fd_to_index = R.fd_to_index
              /\ U.clients[k] = e /\ \A j \in Slots \ {k} : U.clients[j] = R.clients[j]
          BY <2>2, <4>2, <4>4, <4>6 DEF Tables
        <4>8. \A g \in Fds : get_conn(U, g) = get_conn(R, g)
          BY <4>7 DEF get_conn
        <4>9. Placed(T, U, f, k, l = "http")
          BY <2>2, <3>7, <4>5, <4>7, <4>8 DEF Placed
        <4> QED
          BY <2>2, <2>10, <4>9
      <3>11. CASE setup /\ l = "forward" /\ ~r
        <4>1. U = [R EXCEPT !.open = @ \ {f}]
          BY <1>2, <2>12, <3>11 DEF Accepted, A, forward_on_accept
        <4> HIDE DEF R
        <4>2. R \in Tables
          BY <3>7 DEF Placed
        <4>3. U.open = R.open \ {f} /\ U.fd_to_index = R.fd_to_index /\ U.clients = R.clients
          BY <4>1, <4>2 DEF Tables
        <4>4. \A g \in Fds : get_conn(U, g) = get_conn(R, g)
          BY <4>3 DEF get_conn
        <4>5. U.clients[k].is_http = FALSE
          BY <3>7, <3>11, <4>3 DEF Placed
        <4>6. 0 <= 0
          OBVIOUS
        <4>7. Turns(T, U, f, k)
          BY <2>2, <3>7, <4>3, <4>4, <4>5, <4>6 DEF Turns, Placed
        <4> QED
          BY <2>2, <4>7
      <3> QED
        BY <3>8, <3>9, <3>10, <3>11
    <2> QED
      BY <2>11, <2>12
  <1> QED
    BY <1>1, <1>2

(* An event turns at most one slot.                                           *)
Turned(T, U) == U = T \/ \E f \in Fds, k \in Slots : Turns(T, U, f, k)

\* Every event turns at most one slot: a handler that keeps the connection renews its
\* idle time or leaves it, and one that ends it frees the slot of its descriptor.
LEMMA EventTurns ==
  ASSUME IInv, Aged(tab, uptime), Event
  PROVE  \E U : Step(U) /\ Turned(tab, U)
  <1>0. TableInv(tab) /\ tab \in Tables
    BY DEF IInv, TableInv
  <1>1. ASSUME NEW p \in Remotes, NEW l \in Listeners, NEW setup \in BOOLEAN,
               NEW r \in FwdReachable, Accept(p, l, setup, r)
        PROVE  \E U : Step(U) /\ Turned(tab, U)
    <2>1. PICK f \in KernelFd(tab) : Step(Accepted(tab, f, p, l, setup, r))
      BY <1>1 DEF Accept
    <2>2. f \in Fds \ tab.open /\ p \in Peers /\ r \in BOOLEAN
      BY ConfigAssumption DEF KernelFd, Peers
    <2> DEFINE U == Accepted(tab, f, p, l, setup, r)
    <2>3. U = tab \/ \E k \in Slots : Turns(tab, U, f, k)
      BY <1>0, <2>2, AcceptTurns
    <2> HIDE DEF U
    <2>4. Turned(tab, U)
      BY <2>2, <2>3 DEF Turned
    <2> QED
      BY <2>1, <2>4 DEF U
  <1>2. ASSUME NEW f \in Fds, Live(f), NEW c, Carries(Conn(tab, f), c)
        PROVE  Turned(tab, WithConn(tab, f, c))
    <2>1. get_conn(tab, f) \in Slots
      BY <1>0, <1>2, LiveSlot
    <2>2. Turns(tab, WithConn(tab, f, c), f, get_conn(tab, f))
      BY <1>0, <1>2, KeptTurns
    <2> QED
      BY <2>1, <2>2 DEF Turned
  <1>3. ASSUME NEW f \in Fds, Live(f), NEW c, Carries(Conn(tab, f), c)
        PROVE  Turned(tab, conn_del(WithConn(tab, f, c), {f}))
    <2> DEFINE k == get_conn(tab, f)
               V == WithConn(tab, f, c)
    <2>1. k \in Slots /\ f \in tab.open /\ c \in ClientData
      BY <1>0, <1>3, LiveSlot DEF Carries
    <2>2. V = [tab EXCEPT !.clients[k] = c]
      BY DEF WithConn
    <2> HIDE DEF V, k
    <2>3. /\ V \in Tables /\ V.open = tab.open /\ V.fd_to_index = tab.fd_to_index
          /\ \A j \in Slots \ {k} : V.clients[j] = tab.clients[j]
      BY <1>0, <2>1, <2>2 DEF Tables
    <2>4. \A g \in Fds : get_conn(V, g) = get_conn(tab, g)
      BY <2>3 DEF get_conn
    <2>5. get_conn(tab, f) = k /\ get_conn(V, f) = k
      BY <2>4 DEF k
    <2>6. \A g \in Fds \ {f} : (g \in V.open <=> g \in tab.open) /\ get_conn(V, g) = get_conn(tab, g)
      BY <2>3, <2>4
    <2>7. Turns(tab, conn_del(V, {f}), f, k)
      BY <1>0, <2>1, <2>3, <2>5, <2>6, EndedTurns
    <2> QED
      BY <2>1, <2>7 DEF Turned, V
  <1>4. ASSUME NEW f \in Fds, Live(f) PROVE Turned(tab, conn_del(tab, {f}))
    <2>1. get_conn(tab, f) \in Slots /\ f \in tab.open
      BY <1>0, <1>4, LiveSlot
    <2>2. Turns(tab, conn_del(tab, {f}), f, get_conn(tab, f))
      BY <1>0, <2>1, EndedTurns
    <2> QED
      BY <2>1, <2>2 DEF Turned
  <1>5. ASSUME NEW f \in Fds, NEW s \in {"head", "body"}, HttpPartial(f, s)
        PROVE  \E U : Step(U) /\ Turned(tab, U)
    <2> DEFINE c == [Conn(tab, f) EXCEPT !.state = s, !.idle = 0]
    <2>1. Live(f) /\ Step(WithConn(tab, f, c))
      BY <1>5 DEF HttpPartial, HttpReadable, Readable
    <2>2. Conn(tab, f) \in ClientData
      BY <1>0, <2>1, LiveSlot
    <2>3. c \in ClientData
      BY <2>2, SlotUpdatesTyped DEF ParserStates
    <2>4. Carries(Conn(tab, f), c)
      BY <2>2, <2>3 DEF Carries, ClientData
    <2> HIDE DEF c
    <2> QED
      BY <1>2, <2>1, <2>4
  <1>6. ASSUME NEW f \in Fds, HttpBad(f)
        PROVE  \E U : Step(U) /\ Turned(tab, U)
    BY <1>4, <1>6 DEF HttpBad, HttpReadable, Readable
  <1>7. ASSUME NEW f \in Fds, NEW ka \in BOOLEAN, NEW sent \in {"all", "part", "fail"},
               HttpRequest(f, ka, sent)
        PROVE  \E U : Step(U) /\ Turned(tab, U)
    <2> DEFINE d == Conn(tab, f)
               c == [d EXCEPT !.state = "done", !.ka = ka, !.idle = 0, !.served = TRUE]
               r == IF ka THEN http_parser_reset(c) ELSE c
               e == [r EXCEPT !.sending = TRUE]
    <2>1. Live(f) /\ Step(Dispatched(tab, f, ka, sent))
      BY <1>7 DEF HttpRequest, HttpReadable, Readable
    <2>2. d \in ClientData
      BY <1>0, <2>1, LiveSlot
    <2>3. Dispatched(tab, f, ka, sent) \in
            {conn_del(tab, {f}), WithConn(tab, f, r), WithConn(tab, f, e)}
      <3>1. CASE sent = "all"
        BY <3>1 DEF Dispatched
      <3>2. CASE sent = "part"
        BY <3>2 DEF Dispatched
      <3>3. CASE sent = "fail"
        BY <3>3 DEF Dispatched
      <3> QED
        BY <3>1, <3>2, <3>3
    <2> HIDE DEF d
    <2>4. c \in ClientData
      BY <2>2, SlotUpdatesTyped DEF ParserStates
    <2>5. c.fd = d.fd /\ c.age = d.age /\ c.idle = 0
      BY <2>2 DEF ClientData
    <2> HIDE DEF c
    <2>6. r \in ClientData
      BY <2>4, SlotUpdatesTyped
    <2>7. r.fd = d.fd /\ r.age = d.age /\ r.idle = 0
      BY <2>4, <2>5 DEF ClientData, http_parser_reset
    <2> HIDE DEF r
    <2>8. e \in ClientData
      BY <2>6, SlotUpdatesTyped
    <2>9. e.fd = d.fd /\ e.age = d.age /\ e.idle = 0
      BY <2>6, <2>7 DEF ClientData
    <2> HIDE DEF e
    <2>10. Carries(Conn(tab, f), r) /\ Carries(Conn(tab, f), e)
      BY <2>6, <2>7, <2>8, <2>9 DEF Carries, d
    <2>11. Turned(tab, conn_del(tab, {f})) /\ Turned(tab, WithConn(tab, f, r))
           /\ Turned(tab, WithConn(tab, f, e))
      BY <1>2, <1>4, <2>1, <2>10
    <2> QED
      BY <2>1, <2>3, <2>11
  <1>8. ASSUME NEW f \in Fds, NEW ok \in BOOLEAN, resume_send(f, ok)
        PROVE  \E U : Step(U) /\ Turned(tab, U)
    <2> DEFINE d == Conn(tab, f)
               r == http_parser_reset(d)
               c == [r EXCEPT !.sending = FALSE]
    <2>1. Live(f) /\ Step(IF ok THEN SendFinished(tab, f) ELSE conn_del(tab, {f}))
      BY <1>8 DEF resume_send
    <2>2. d \in ClientData
      BY <1>0, <2>1, LiveSlot
    <2>3. (IF ok THEN SendFinished(tab, f) ELSE conn_del(tab, {f})) \in
            {conn_del(tab, {f}), WithConn(tab, f, c)}
      BY DEF SendFinished
    <2> HIDE DEF d
    <2>4. r \in ClientData
      BY <2>2, SlotUpdatesTyped
    <2>5. r.fd = d.fd /\ r.age = d.age /\ r.idle = d.idle
      BY <2>2 DEF ClientData, http_parser_reset
    <2> HIDE DEF r
    <2>6. c \in ClientData
      BY <2>4, SlotUpdatesTyped
    <2>7. c.fd = d.fd /\ c.age = d.age /\ c.idle = d.idle
      BY <2>4, <2>5 DEF ClientData
    <2> HIDE DEF c
    <2>8. Carries(Conn(tab, f), c)
      BY <2>6, <2>7 DEF Carries, d
    <2>9. Turned(tab, conn_del(tab, {f})) /\ Turned(tab, WithConn(tab, f, c))
      BY <1>2, <1>4, <2>1, <2>8
    <2> QED
      BY <2>1, <2>3, <2>9
  <1>9. ASSUME NEW f \in Fds, RawRead(f)
        PROVE  \E U : Step(U) /\ Turned(tab, U)
    <2> DEFINE c == [Conn(tab, f) EXCEPT !.idle = 0]
    <2>1. Live(f) /\ Step(WithConn(tab, f, c))
      BY <1>9 DEF RawRead, Readable
    <2>2. Conn(tab, f) \in ClientData
      BY <1>0, <2>1, LiveSlot
    <2>3. c \in ClientData
      BY <2>2, SlotUpdatesTyped
    <2>4. Carries(Conn(tab, f), c)
      BY <2>2, <2>3 DEF Carries, ClientData
    <2> HIDE DEF c
    <2> QED
      BY <1>2, <2>1, <2>4
  <1>10. ASSUME NEW f \in Fds, ForwardSendError(f)
         PROVE  \E U : Step(U) /\ Turned(tab, U)
    <2> DEFINE c == [Conn(tab, f) EXCEPT !.forward_active = FALSE, !.idle = 0]
    <2>1. Live(f) /\ Step(WithConn(tab, f, c))
      BY <1>10 DEF ForwardSendError, Readable
    <2>2. Conn(tab, f) \in ClientData
      BY <1>0, <2>1, LiveSlot
    <2>3. c \in ClientData
      BY <2>2, SlotUpdatesTyped
    <2>4. Carries(Conn(tab, f), c)
      BY <2>2, <2>3 DEF Carries, ClientData
    <2> HIDE DEF c
    <2> QED
      BY <1>2, <2>1, <2>4
  <1>11. ASSUME NEW f \in Fds, Disconnect(f)
         PROVE  \E U : Step(U) /\ Turned(tab, U)
    <2> DEFINE c == [Conn(tab, f) EXCEPT !.forward_active = FALSE]
    <2>1. Live(f) /\ Step(conn_del(WithConn(tab, f, c), {f}))
      BY <1>11 DEF Disconnect, Readable
    <2>2. Conn(tab, f) \in ClientData
      BY <1>0, <2>1, LiveSlot
    <2>3. c \in ClientData
      BY <2>2, SlotUpdatesTyped
    <2>4. Carries(Conn(tab, f), c)
      BY <2>2, <2>3 DEF Carries, ClientData
    <2> HIDE DEF c
    <2> QED
      BY <1>3, <2>1, <2>4
  <1> QED
    BY <1>1, <1>5, <1>6, <1>7, <1>8, <1>9, <1>10, <1>11 DEF Event

\* An event keeps every slot either its own descriptor's or a forward listener's.
LEMMA EventKeepsAInv ==
  ASSUME AInv, Event
  PROVE  AInv'
  <1>0. IInv /\ Aged(tab, uptime)
    BY DEF AInv
  <1>1. PICK U : Step(U) /\ Turned(tab, U)
    BY <1>0, EventTurns
  <1>2. IInv'
    BY <1>0, EventPreserves
  <1>3. tab \in Tables /\ tab' \in Tables /\ uptime \in [Fds -> 0..AgeCap]
    BY <1>0, <1>2 DEF IInv, TypeOK
  <1>4. tab' = U /\ uptime' = Uptimes(tab, U, uptime)
    BY <1>1 DEF Step, Uptimes
  <1>5. CASE U = tab
    <2>1. \A g \in Fds : uptime'[g] = IF g \in tab.open THEN uptime[g] ELSE 0
      BY <1>4, <1>5 DEF Uptimes
    <2>2. \A i \in Slots : tab.clients[i].fd # 0 => tab.clients[i].fd \in Fds
      BY <1>3, SlotTyped
    <2>3. \A i \in Slots : tab.clients[i].fd # 0 /\ Owns(tab, i) =>
            uptime'[tab.clients[i].fd] = uptime[tab.clients[i].fd]
      BY <2>1, <2>2 DEF Owns
    <2>4. Aged(tab, uptime')
      BY <1>0, <2>3 DEF Aged, SlotAged
    <2> QED
      BY <1>2, <1>4, <1>5, <2>4 DEF AInv
  <1>6. CASE \E f \in Fds, k \in Slots : Turns(tab, U, f, k)
    <2>1. PICK f \in Fds, k \in Slots : Turns(tab, U, f, k)
      BY <1>6
    <2>2. Aged(U, Uptimes(tab, U, uptime))
      BY <1>0, <1>3, <1>4, <2>1, TurnedAged
    <2> QED
      BY <1>2, <1>4, <2>2 DEF AInv
  <1> QED
    BY <1>1, <1>5, <1>6 DEF Turned

\* A second makes a slot no older than its descriptor, and opens or closes nothing.
LEMMA TickKeepsAInv ==
  ASSUME AInv, Tick
  PROVE  AInv'
  <1>0. IInv /\ Aged(tab, uptime) /\ tab \in Tables /\ uptime \in [Fds -> 0..AgeCap]
    BY DEF AInv, IInv, TypeOK
  <1>1. IInv'
    BY <1>0, TickPreserves
  <1>2. tab'.open = tab.open /\ tab'.fd_to_index = tab.fd_to_index
    BY <1>0 DEF Tick, Tables
  <1>3. \A g \in Fds : get_conn(tab', g) = get_conn(tab, g)
    BY <1>2 DEF get_conn
  <1>4. Aged(tab', uptime')
    <2> SUFFICES ASSUME NEW i \in Slots, tab'.clients[i].fd # 0
                 PROVE  SlotAged(tab', uptime', i)
      BY DEF Aged, SlotAged
    <2> DEFINE g == tab.clients[i].fd
    <2>1. /\ tab'.clients[i].age = Older(tab.clients[i].age)
          /\ tab'.clients[i].idle = Older(tab.clients[i].idle)
          /\ tab'.clients[i].fd = g /\ g # 0
          /\ tab'.clients[i].is_http = tab.clients[i].is_http
      BY <1>0, TickSlots
    <2>2. SlotAged(tab, uptime, i) /\ g \in Fds /\ uptime[g] \in 0..AgeCap
          /\ tab.clients[i].age \in 0..AgeCap /\ tab.clients[i].idle \in 0..AgeCap
      BY <1>0, <2>1, SlotTyped DEF Aged
    <2>3. Owns(tab', i) <=> Owns(tab, i)
      BY <1>2, <1>3, <2>1, <2>2 DEF Owns
    <2>4. tab'.clients[i].idle <= tab'.clients[i].age
      BY <2>1, <2>2, OlderFacts DEF SlotAged
    <2>5. Owns(tab, i) => tab'.clients[i].age <= uptime'[g]
      <3> SUFFICES ASSUME Owns(tab, i) PROVE tab'.clients[i].age <= uptime'[g]
        OBVIOUS
      <3>1. g \in tab.open /\ tab.clients[i].age <= uptime[g]
        BY <2>1, <2>2 DEF SlotAged, Owns
      <3>2. uptime'[g] = Older(uptime[g])
        BY <2>2, <3>1 DEF Tick
      <3> QED
        BY <2>1, <2>2, <3>1, <3>2, OlderFacts
    <2>6. ~Owns(tab, i) => ~tab'.clients[i].is_http
      BY <2>1, <2>2 DEF SlotAged
    <2> QED
      BY <2>1, <2>3, <2>4, <2>5, <2>6 DEF SlotAged
  <1> QED
    BY <1>1, <1>4 DEF AInv

\* The sweep frees slots and disowns none: a slot that it leaves and whose number it
\* closed was not the slot of that number.
LEMMA SweepKeepsAInv ==
  ASSUME AInv, Sweep
  PROVE  AInv'
  <1>0. IInv /\ Aged(tab, uptime) /\ tab \in Tables /\ TableInv(tab)
    BY DEF AInv, IInv, TypeOK
  <1>1. IInv'
    BY <1>0, SweepPreserves
  <1> DEFINE F == StaleFds(tab)
  <1>2. tab' = conn_del(tab, F) /\ \A f \in Fds : f \in tab'.open => uptime'[f] = uptime[f]
    BY DEF Sweep, connection_timeout_sweep
  <1> HIDE DEF F
  <1>3. /\ \A i \in Slots : tab'.clients[i] = IF i \in Deleted(tab, F) THEN Vacated(tab.clients[i])
                                              ELSE tab.clients[i]
        /\ tab'.open = tab.open \ (F \cap Mapped(tab))
        /\ \A f \in Fds : get_conn(tab', f) = IF f \in F THEN -1 ELSE get_conn(tab, f)
    BY <1>2 DEF conn_del, get_conn
  <1>4. Aged(tab', uptime')
    <2> SUFFICES ASSUME NEW i \in Slots, tab'.clients[i].fd # 0
                 PROVE  SlotAged(tab', uptime', i)
      BY DEF Aged, SlotAged
    <2>1. i \notin Deleted(tab, F) /\ tab'.clients[i] = tab.clients[i]
      <3>1. Vacated(tab.clients[i]).fd = 0
        <4>1. tab.clients[i] \in ClientData
          BY <1>0, SlotTyped
        <4> QED
          BY <4>1 DEF Vacated, ClientData
      <3> QED
        BY <1>3, <3>1
    <2> DEFINE g == tab.clients[i].fd
    <2>2. SlotAged(tab, uptime, i) /\ g \in Fds /\ g # 0
      BY <1>0, <2>1, SlotTyped DEF Aged
    <2>3. Owns(tab', i) <=> Owns(tab, i)
      <3>1. CASE g \in F
        <4>1. ~Owns(tab', i)
          BY <1>3, <2>1, <2>2, <3>1, TimeFacts DEF Owns
        <4>2. ~Owns(tab, i)
          BY <2>1, <2>2, <3>1, TimeFacts DEF Owns, Deleted, Mapped
        <4> QED
          BY <4>1, <4>2
      <3>2. CASE g \notin F
        BY <1>3, <2>1, <2>2, <3>2 DEF Owns
      <3> QED
        BY <3>1, <3>2
    <2>4. Owns(tab', i) => uptime'[g] = uptime[g]
      BY <1>2, <2>1, <2>2 DEF Owns
    <2> QED
      BY <2>1, <2>2, <2>3, <2>4 DEF SlotAged
  <1> QED
    BY <1>1, <1>4 DEF AInv

\* AInv holds in every reachable state, whatever becomes of forward_connect.
THEOREM AgesInvariance == Spec => []AInv
  <1>1. Init /\ IInv => AInv
    <2> SUFFICES ASSUME Init, IInv PROVE AInv
      OBVIOUS
    <2>1. \A i \in Slots : tab.clients[i] = EmptySlot
      BY DEF Init, EmptyTable
    <2>2. EmptySlot.fd = 0
      BY DEF EmptySlot
    <2> QED
      BY <2>1, <2>2 DEF AInv, Aged, SlotAged
  <1>2. AInv /\ [Next]_vars => AInv'
    <2> SUFFICES ASSUME AInv, [Next]_vars PROVE AInv'
      OBVIOUS
    <2>1. CASE Event
      BY <2>1, EventKeepsAInv
    <2>2. CASE Tick
      BY <2>2, TickKeepsAInv
    <2>3. CASE Sweep
      BY <2>3, SweepKeepsAInv
    <2>4. CASE UNCHANGED vars
      <3>1. tab' = tab /\ swept' = swept /\ budget' = budget /\ uptime' = uptime
        BY <2>4 DEF vars
      <3>2. IInv /\ Aged(tab, uptime)
        BY DEF AInv
      <3>3. Aged(tab', uptime')
        BY <3>1, <3>2
      <3>4. IInv'
        <4>1. TypeOK' /\ TableInv(tab')
          BY <3>1, <3>2 DEF IInv, TypeOK
        <4>2. TableInv(tab)'
          BY <4>1 DEF TableInv, Tables, Consistent, CountsExact, WithinLimit, Holding,
                      Mapped, get_conn
        <4> QED
          BY <4>1, <4>2 DEF IInv
      <3> QED
        BY <3>3, <3>4 DEF AInv
    <2> QED
      BY <2>1, <2>2, <2>3, <2>4 DEF Next
  <1> QED
    BY <1>1, <1>2, Invariance, PTL DEF Spec

\* Whether or not forward targets are reachable, connection_timeout_sweep closes a
\* connection only for its own age or because a slot that a failed forward_on_accept
\* left behind, idle for the idle timeout, still names its number.
THEOREM FreshAlwaysSpared == Spec => FreshSpared
  <1> DEFINE Kept(f) == \/ Due(tab, uptime, f)
                        \/ \E i \in Orphans(tab, f) :
                             /\ ~tab.clients[i].is_http
                             /\ IdleTimeout > 0 /\ tab.clients[i].idle >= IdleTimeout
             Spared == Sweep => \A f \in tab.open \ tab'.open : Kept(f)
  <1>1. AInv /\ [Next]_vars => [Spared]_vars
    <2> SUFFICES ASSUME AInv, Sweep, NEW f \in tab.open \ tab'.open PROVE Kept(f)
      OBVIOUS
    <2>1. TableInv(tab) /\ tab \in Tables /\ Aged(tab, uptime)
          /\ uptime \in [Fds -> 0..AgeCap] /\ f \in Fds
      BY DEF AInv, IInv, TypeOK, Tables
    <2>2. f \in StaleFds(tab)
      BY DEF Sweep, connection_timeout_sweep, conn_del
    <2>3. PICK i \in Slots : Stale(tab.clients[i]) /\ tab.clients[i].fd = f
      BY <2>2 DEF StaleFds
    <2>4. SlotAged(tab, uptime, i) /\ tab.clients[i].fd # 0
      BY <2>1, <2>3 DEF Aged, Stale
    <2>5. PICK a \in Int : a = tab.clients[i].age
      BY <2>1, SlotTyped
    <2>6. PICK d \in Int : d = tab.clients[i].idle
      BY <2>1, SlotTyped
    <2>7. PICK u \in Int : u = uptime[f]
      BY <2>1
    <2>8. CASE get_conn(tab, f) = i
      <3>1. a <= u /\ d <= u
        BY <2>3, <2>4, <2>5, <2>6, <2>7, <2>8 DEF SlotAged, Owns
      <3>2. \/ Expired(a, HeaderTimeout)
            \/ Expired(d, BodyTimeout)
            \/ Expired(d, IdleTimeout)
        BY <2>3, <2>5, <2>6 DEF Stale, TimedOut
      <3>3. \E t \in {HeaderTimeout, BodyTimeout, IdleTimeout} : t > 0 /\ u >= t
        BY <3>1, <3>2, TimeFacts DEF Expired
      <3>4. ~Conn(tab, f).forward_active
        BY <2>3, <2>8 DEF Conn, Stale
      <3> QED
        BY <2>7, <3>3, <3>4 DEF Due
    <2>9. CASE get_conn(tab, f) # i
      <3>1. i \in Orphans(tab, f)
        BY <2>3, <2>9 DEF Orphans
      <3>2. ~tab.clients[i].is_http
        BY <2>3, <2>4, <2>9 DEF SlotAged, Owns
      <3>3. Expired(tab.clients[i].idle, IdleTimeout)
        BY <2>3, <3>2 DEF Stale, TimedOut
      <3> QED
        BY <3>1, <3>2, <3>3 DEF Expired
    <2> QED
      BY <2>8, <2>9
  <1> QED
    BY <1>1, AgesInvariance, PTL DEF Spec, FreshSpared
=============================================================================
