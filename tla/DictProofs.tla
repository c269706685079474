------------------------------ MODULE DictProofs ------------------------------
(***************************************************************************)
(* The pair array of include/dict.h implements a map, for every set of     *)
(* keys and values, every initial capacity and every allocation failure.   *)
(***************************************************************************)
EXTENDS Dict, SequenceTheorems, FiniteSetTheorems, WellFoundedInduction, TLAPS

Pair == [key : Keys, value : Values]
Objects == [type : {"object"}, pairs : Seq(Pair), capacity : Nat]

Distinct(o) == \A i, j \in DOMAIN o.pairs : o.pairs[i].key = o.pairs[j].key => i = j

(* The inductive invariant: typed pairs, within the allocation, no key twice. *)
Sound(o) == o \in Objects /\ Len(o.pairs) <= o.capacity /\ Distinct(o)

\* The pairs of an object are typed and numbered from 1.
LEMMA PairsTyped ==
  ASSUME NEW o, Sound(o)
  PROVE  /\ o.pairs \in Seq(Pair) /\ Len(o.pairs) \in Nat /\ o.capacity \in Nat
         /\ DOMAIN o.pairs = 1 .. Len(o.pairs)
         /\ \A i \in 1 .. Len(o.pairs) : /\ o.pairs[i] \in Pair
                                         /\ o.pairs[i].key \in Keys
                                         /\ o.pairs[i].value \in Values
  <1>1. o.pairs \in Seq(Pair) /\ o.capacity \in Nat
    BY DEF Sound, Objects
  <1>2. /\ Len(o.pairs) \in Nat /\ DOMAIN o.pairs = 1 .. Len(o.pairs)
        /\ o.pairs \in [1 .. Len(o.pairs) -> Pair]
    BY <1>1, LenProperties
  <1> QED
    BY <1>1, <1>2 DEF Pair

\* dict_object_find_key finds the one pair that has the key, and says so when
\* there is none.
LEMMA FindKey ==
  ASSUME NEW o, Sound(o), NEW k
  PROVE  /\ \A i \in DOMAIN o.pairs : o.pairs[i].key = k => dict_object_find_key(o, k) = i
         /\ k \notin KeysOf(o) => dict_object_find_key(o, k) = 0
         /\ k \in KeysOf(o) => /\ dict_object_find_key(o, k) \in 1 .. Len(o.pairs)
                               /\ o.pairs[dict_object_find_key(o, k)].key = k
  <1>1. DOMAIN o.pairs = 1 .. Len(o.pairs) /\ Len(o.pairs) \in Nat
    BY PairsTyped
  <1>2. \A i \in DOMAIN o.pairs : o.pairs[i].key = k =>
          /\ \A j \in 1 .. i - 1 : o.pairs[j].key # k
          /\ \A j \in DOMAIN o.pairs : o.pairs[j].key = k => j = i
    BY <1>1 DEF Sound, Distinct
  <1>3. \A i \in DOMAIN o.pairs : o.pairs[i].key = k => dict_object_find_key(o, k) = i
    BY <1>2 DEF dict_object_find_key
  <1>4. k \notin KeysOf(o) => dict_object_find_key(o, k) = 0
    BY DEF KeysOf, dict_object_find_key
  <1> QED
    BY <1>1, <1>3, <1>4 DEF KeysOf

\* The map an object stands for, pair by pair.
LEMMA MapOfPairs ==
  ASSUME NEW o, Sound(o)
  PROVE  /\ DOMAIN MapOf(o) = KeysOf(o)
         /\ \A i \in DOMAIN o.pairs : /\ o.pairs[i].key \in KeysOf(o)
                                      /\ MapOf(o)[o.pairs[i].key] = o.pairs[i].value
  <1>1. \A i \in DOMAIN o.pairs : /\ dict_object_find_key(o, o.pairs[i].key) = i
                                  /\ i # 0
    BY FindKey, PairsTyped
  <1> QED
    BY <1>1 DEF MapOf, KeysOf, dict_object_get

\* The map after a value was put under a key, and after a key was taken away.
With(m, k, v) == [x \in DOMAIN m \cup {k} |-> IF x = k THEN v ELSE m[x]]
Without(m, k) == [x \in DOMAIN m \ {k} |-> m[x]]

\* An object stands for the map f when it has the keys of f and every pair
\* agrees with f.
LEMMA MapIs ==
  ASSUME NEW o, Sound(o), NEW D, NEW E, NEW f \in [D -> E],
         KeysOf(o) = D,
         \A i \in DOMAIN o.pairs : f[o.pairs[i].key] = o.pairs[i].value
  PROVE  MapOf(o) = f
  <1>1. MapOf(o) = [x \in D |-> MapOf(o)[x]]
    BY DEF MapOf
  <1>2. ASSUME NEW x \in D PROVE MapOf(o)[x] = f[x]
    <2>1. PICK i \in DOMAIN o.pairs : o.pairs[i].key = x
      BY DEF KeysOf
    <2> QED
      BY <2>1, MapOfPairs
  <1> QED
    BY <1>1, <1>2

\* The map takes the object's keys to values.
LEMMA MapTyped ==
  ASSUME NEW o, Sound(o)
  PROVE  MapOf(o) \in [KeysOf(o) -> Values]
  <1>1. MapOf(o) = [x \in KeysOf(o) |-> MapOf(o)[x]]
    BY DEF MapOf
  <1>2. ASSUME NEW x \in KeysOf(o) PROVE MapOf(o)[x] \in Values
    <2>1. PICK i \in DOMAIN o.pairs : o.pairs[i].key = x
      BY DEF KeysOf
    <2> QED
      BY <2>1, MapOfPairs, PairsTyped
  <1> QED
    BY <1>1, <1>2

\* A new object is empty.
LEMMA EmptySound == Sound(EmptyObject) /\ MapOf(EmptyObject) = [k \in {} |-> k]
  <1>1. /\ EmptyObject \in Objects /\ Len(EmptyObject.pairs) = 0
        /\ DOMAIN EmptyObject.pairs = {} /\ EmptyObject.capacity = InitCap
    BY DictAssumption, EmptySeq DEF EmptyObject, Objects
  <1>2. Sound(EmptyObject)
    BY <1>1, DictAssumption DEF Sound, Distinct
  <1>3. KeysOf(EmptyObject) = {}
    BY <1>1 DEF KeysOf
  <1> QED
    BY <1>2, <1>3 DEF MapOf

\* A value stored under a key that is present replaces the old one in its place.
LEMMA ReplaceSound ==
  ASSUME NEW o, Sound(o), NEW k \in KeysOf(o), NEW v \in Values,
         NEW w \in Pair, w.key = k, w.value = v,
         NEW p \in Objects, p.capacity = o.capacity,
         p.pairs = [o.pairs EXCEPT ![dict_object_find_key(o, k)] = w]
  PROVE  /\ Sound(p)
         /\ MapOf(p) = With(MapOf(o), k, v)
  <1> DEFINE idx == dict_object_find_key(o, k)
             n == Len(o.pairs)
  <1>1. idx \in 1 .. n /\ o.pairs[idx].key = k
    BY FindKey
  <1>2. o.pairs \in Seq(Pair) /\ n \in Nat /\ DOMAIN o.pairs = 1 .. n
    BY PairsTyped
  <1> HIDE DEF idx
  <1>6. /\ Len(p.pairs) = n /\ DOMAIN p.pairs = 1 .. n
        /\ \A i \in 1 .. n : p.pairs[i] = IF i = idx THEN w ELSE o.pairs[i]
    BY <1>1, <1>2, ExceptSeq, LenProperties DEF idx
  <1>7. \A i \in 1 .. n : /\ p.pairs[i].key = o.pairs[i].key
                          /\ p.pairs[i].value = IF i = idx THEN v ELSE o.pairs[i].value
    BY <1>1, <1>6
  <1>9. Sound(p)
    BY <1>2, <1>6, <1>7 DEF Sound, Distinct
  <1>10. KeysOf(p) = KeysOf(o) \cup {k}
    BY <1>1, <1>2, <1>6, <1>7 DEF KeysOf
  <1>11. \A i \in 1 .. n : /\ MapOf(o)[o.pairs[i].key] = o.pairs[i].value
                           /\ o.pairs[i].key \in KeysOf(o)
                           /\ o.pairs[i].key = k => i = idx
    BY <1>2, MapOfPairs, FindKey DEF idx
  <1> DEFINE f == With(MapOf(o), k, v)
  <1>12. \A i \in DOMAIN p.pairs : f[p.pairs[i].key] = p.pairs[i].value
    BY <1>1, <1>6, <1>7, <1>11, MapOfPairs DEF With
  <1>13. MapOf(p) = f
    <2>1. f \in [KeysOf(o) \cup {k} -> Values]
      BY MapTyped DEF With
    <2> HIDE DEF f
    <2>2. \A i \in DOMAIN p.pairs : f[p.pairs[i].key] = p.pairs[i].value
      BY <1>12
    <2> QED
      BY <1>9, <1>10, <2>1, <2>2, MapIs
  <1> QED
    BY <1>9, <1>13

\* More room changes nothing a user sees.
LEMMA RoomSound ==
  ASSUME NEW o, Sound(o), NEW p \in Objects, p.pairs = o.pairs, o.capacity <= p.capacity
  PROVE  Sound(p) /\ MapOf(p) = MapOf(o)
  <1>1. Sound(p)
    BY PairsTyped DEF Sound, Distinct, Objects
  <1>2. KeysOf(p) = KeysOf(o) /\ \A k : dict_object_find_key(p, k) = dict_object_find_key(o, k)
    BY DEF KeysOf, dict_object_find_key
  <1> QED
    BY <1>1, <1>2 DEF MapOf, dict_object_get

\* A new pair goes behind the others, into room that is there.
LEMMA AppendSound ==
  ASSUME NEW o, Sound(o), NEW k \in Keys, k \notin KeysOf(o), NEW v \in Values,
         NEW p \in Objects, p.pairs = Append(o.pairs, [key |-> k, value |-> v]),
         Len(o.pairs) + 1 <= p.capacity
  PROVE  /\ Sound(p)
         /\ MapOf(p) = With(MapOf(o), k, v)
  <1> DEFINE n == Len(o.pairs)
             new == [key |-> k, value |-> v]
  <1>1. /\ o.pairs \in Seq(Pair) /\ n \in Nat /\ DOMAIN o.pairs = 1 .. n
    BY PairsTyped
  <1>2. new \in Pair
    BY DEF Pair
  <1>3. /\ Len(p.pairs) = n + 1 /\ DOMAIN p.pairs = 1 .. n + 1
        /\ \A i \in 1 .. n : p.pairs[i] = o.pairs[i]
        /\ p.pairs[n + 1] = new
    BY <1>1, <1>2, AppendProperties, LenProperties
  <1>4. \A i \in 1 .. n : /\ o.pairs[i].key \in KeysOf(o)
                          /\ MapOf(o)[o.pairs[i].key] = o.pairs[i].value
                          /\ o.pairs[i].key # k
    BY <1>1, MapOfPairs
  <1>5. \A i \in 1 .. n + 1 : i \in 1 .. n \/ i = n + 1
    BY <1>1
  <1>6. Sound(p)
    BY <1>1, <1>3, <1>4, <1>5 DEF Sound, Distinct
  <1>7. KeysOf(p) = KeysOf(o) \cup {k}
    <2>1. KeysOf(p) \subseteq KeysOf(o) \cup {k}
      BY <1>1, <1>3, <1>4, <1>5 DEF KeysOf
    <2>2. KeysOf(o) \subseteq KeysOf(p)
      BY <1>1, <1>3 DEF KeysOf
    <2>3. k \in KeysOf(p)
      BY <1>1, <1>3 DEF KeysOf
    <2> QED
      BY <2>1, <2>2, <2>3
  <1> DEFINE f == With(MapOf(o), k, v)
  <1>8. \A i \in DOMAIN p.pairs : f[p.pairs[i].key] = p.pairs[i].value
    BY <1>3, <1>4, <1>5, MapOfPairs DEF With
  <1>9. MapOf(p) = f
    <2>1. f \in [KeysOf(o) \cup {k} -> Values]
      BY MapTyped DEF With
    <2> QED
      BY <1>6, <1>7, <1>8, <2>1, MapIs
  <1> QED
    BY <1>6, <1>9

\* dict_object_set, whichever allocation fails: the value is under its key, or
\* the map is what it was.
LEMMA SetSound ==
  ASSUME NEW o, Sound(o), NEW k \in Keys, NEW v \in Values, NEW fuel \in Nat,
         NEW p, p = dict_object_set(o, k, v, fuel).obj
  PROVE  /\ Sound(p)
         /\ \/ MapOf(p) = MapOf(o)
            \/ MapOf(p) = With(MapOf(o), k, v)
  <1>1. CASE Len(k) = 0 \/ Len(k) >= MaxKeyLen
    <2>1. p = o
      BY <1>1 DEF dict_object_set
    <2> QED
      BY <2>1
  <1>2. CASE ~(Len(k) = 0 \/ Len(k) >= MaxKeyLen) /\ dict_object_find_key(o, k) # 0
    <2>1. k \in KeysOf(o)
      BY <1>2, FindKey
    <2>2. p = [o EXCEPT !.pairs[dict_object_find_key(o, k)].value = v]
      BY <1>2 DEF dict_object_set
    <2> DEFINE idx == dict_object_find_key(o, k)
               w == [o.pairs[idx] EXCEPT !.value = v]
    <2>3. /\ o \in Objects /\ o.pairs \in Seq(Pair)
          /\ idx \in 1 .. Len(o.pairs) /\ o.pairs[idx] \in Pair /\ o.pairs[idx].key = k
      BY <2>1, FindKey, PairsTyped DEF Sound
    <2> HIDE DEF idx
    <2>4. w \in Pair /\ w.key = k /\ w.value = v
      BY <2>3 DEF Pair
    <2>5. p = [o EXCEPT !.pairs = [o.pairs EXCEPT ![idx] = w]]
      BY <2>2 DEF idx
    <2> HIDE DEF w
    <2>6. [o.pairs EXCEPT ![idx] = w] \in Seq(Pair)
      BY <2>3, <2>4, ExceptSeq
    <2>7. p \in Objects /\ p.capacity = o.capacity /\ p.pairs = [o.pairs EXCEPT ![idx] = w]
      BY <2>3, <2>5, <2>6 DEF Objects
    <2> QED
      BY <2>1, <2>4, <2>7, ReplaceSound DEF idx
  <1>3. CASE ~(Len(k) = 0 \/ Len(k) >= MaxKeyLen) /\ dict_object_find_key(o, k) = 0
    <2> DEFINE n == Len(o.pairs) + 1
               room == dict_object_ensure_capacity(o, n, fuel)
    <2>1. k \notin KeysOf(o)
      BY <1>3, FindKey
    <2>2. o \in Objects /\ o.pairs \in Seq(Pair) /\ n \in Nat /\ o.capacity \in Nat
      BY PairsTyped DEF Sound
    <2>3. /\ room.obj \in Objects /\ room.obj.pairs = o.pairs
          /\ o.capacity <= room.obj.capacity
          /\ room.ok => n <= room.obj.capacity
      BY <2>2 DEF dict_object_ensure_capacity, Objects, Larger
    <2>4. p = InsertPair(o, k, v, fuel).obj
      BY <1>3 DEF dict_object_set
    <2>5. CASE room.ok /\ room.fuel > 0
      <3> HIDE DEF room
      <3>1. p = [room.obj EXCEPT !.pairs = Append(@, [key |-> k, value |-> v])]
        BY <2>4, <2>5 DEF InsertPair, room
      <3>2. Append(o.pairs, [key |-> k, value |-> v]) \in Seq(Pair)
        BY <2>2, AppendProperties DEF Pair
      <3>3. /\ p \in Objects /\ p.pairs = Append(o.pairs, [key |-> k, value |-> v])
            /\ n <= p.capacity
        BY <2>3, <2>5, <3>1, <3>2 DEF Objects
      <3> QED
        BY <2>1, <3>3, AppendSound
    <2>6. CASE ~(room.ok /\ room.fuel > 0)
      <3> HIDE DEF room
      <3>1. p = room.obj
        BY <2>4, <2>6 DEF InsertPair, room
      <3> QED
        BY <2>3, <3>1, RoomSound
    <2> QED
      BY <2>5, <2>6
  <1> QED
    BY <1>1, <1>2, <1>3

\* A function from 1 .. n is a sequence of length n.
LEMMA FunctionIsSeq ==
  ASSUME NEW S, NEW n \in Nat, NEW s \in [1 .. n -> S]
  PROVE  s \in Seq(S) /\ Len(s) = n /\ DOMAIN s = 1 .. n
  <1>1. s \in Seq(S) /\ DOMAIN s = 1 .. n
    BY SeqDef
  <1> QED
    BY <1>1, LenProperties

\* The pair that moved and the pairs that stayed are all but the removed one.
LEMMA MoveSound ==
  ASSUME NEW o, Sound(o), NEW k \in KeysOf(o),
         NEW p \in Objects, p.capacity = o.capacity,
         p.pairs = [i \in 1 .. Len(o.pairs) - 1 |->
                      IF i = dict_object_find_key(o, k) THEN o.pairs[Len(o.pairs)]
                      ELSE o.pairs[i]]
  PROVE  Sound(p) /\ MapOf(p) = Without(MapOf(o), k)
  <1> DEFINE idx == dict_object_find_key(o, k)
             n == Len(o.pairs)
             from(i) == IF i = idx THEN n ELSE i
  <1>1. idx \in 1 .. n /\ o.pairs[idx].key = k
    BY FindKey
  <1>2. /\ o.pairs \in Seq(Pair) /\ n \in Nat /\ DOMAIN o.pairs = 1 .. n
        /\ \A i \in 1 .. n : o.pairs[i] \in Pair
    BY PairsTyped
  <1> HIDE DEF idx
  <1>3. /\ n - 1 \in Nat /\ Len(p.pairs) = n - 1 /\ DOMAIN p.pairs = 1 .. n - 1
        /\ \A i \in 1 .. n - 1 : p.pairs[i] = o.pairs[from(i)]
    <2>1. n - 1 \in Nat /\ n \in 1 .. n /\ \A i \in 1 .. n - 1 : i \in 1 .. n
      BY <1>1, <1>2
    <2>2. p.pairs = [i \in 1 .. n - 1 |-> o.pairs[from(i)]]
      BY DEF idx
    <2>3. p.pairs \in [1 .. n - 1 -> Pair]
      BY <1>2, <2>1, <2>2
    <2> QED
      BY <2>1, <2>2, <2>3, FunctionIsSeq
  <1>4. /\ \A i \in 1 .. n - 1 : from(i) \in 1 .. n /\ from(i) # idx
        /\ \A i, j \in 1 .. n - 1 : from(i) = from(j) => i = j
        /\ \A j \in 1 .. n : j # idx => \E i \in 1 .. n - 1 : from(i) = j
    <2>1. \A j \in 1 .. n : j # idx => \E i \in 1 .. n - 1 : from(i) = j
      <3>1. TAKE j \in 1 .. n
      <3>2. HAVE j # idx
      <3>3. CASE j = n
        BY <1>1, <1>2, <3>2, <3>3
      <3>4. CASE j # n
        BY <1>1, <1>2, <3>2, <3>4
      <3> QED
        BY <3>3, <3>4
    <2> QED
      BY <1>1, <1>2, <2>1
  <1> HIDE DEF from
  <1>5. \A i, j \in 1 .. n : o.pairs[i].key = o.pairs[j].key => i = j
    BY <1>2 DEF Sound, Distinct
  <1>6. Sound(p)
    <2>1. Len(p.pairs) <= p.capacity
      BY <1>2, <1>3, PairsTyped DEF Sound
    <2>2. ASSUME NEW i \in 1 .. n - 1, NEW j \in 1 .. n - 1, p.pairs[i].key = p.pairs[j].key
          PROVE  i = j
      <3>1. /\ from(i) \in 1 .. n /\ from(j) \in 1 .. n
            /\ o.pairs[from(i)].key = o.pairs[from(j)].key
        BY <1>3, <1>4, <2>2
      <3> QED
        BY <1>4, <1>5, <3>1
    <2> QED
      BY <1>3, <2>1, <2>2 DEF Sound, Distinct
  <1>7. KeysOf(p) = KeysOf(o) \ {k}
    <2>1. ASSUME NEW x \in KeysOf(p) PROVE x \in KeysOf(o) /\ x # k
      <3>1. PICK i \in 1 .. n - 1 : x = p.pairs[i].key
        BY <1>3, <2>1 DEF KeysOf
      <3>2. x = o.pairs[from(i)].key /\ from(i) \in 1 .. n /\ from(i) # idx
        BY <1>3, <1>4, <3>1
      <3> QED
        BY <1>1, <1>2, <1>5, <3>2 DEF KeysOf
    <2>2. ASSUME NEW x \in KeysOf(o), x # k PROVE x \in KeysOf(p)
      <3>1. PICK j \in 1 .. n : x = o.pairs[j].key
        BY <1>2 DEF KeysOf
      <3>2. PICK i \in 1 .. n - 1 : from(i) = j
        BY <1>1, <1>4, <2>2, <3>1
      <3>3. x = p.pairs[i].key
        BY <1>3, <3>1, <3>2
      <3> QED
        BY <1>3, <3>3 DEF KeysOf
    <2> QED
      BY <2>1, <2>2
  <1>8. Without(MapOf(o), k) \in [KeysOf(o) \ {k} -> Values]
    BY MapTyped DEF Without
  <1>9. \A i \in DOMAIN p.pairs : Without(MapOf(o), k)[p.pairs[i].key] = p.pairs[i].value
    <2>1. \A i \in 1 .. n - 1 : p.pairs[i].key \in KeysOf(o) \ {k}
      BY <1>3, <1>7 DEF KeysOf
    <2>2. ASSUME NEW i \in 1 .. n - 1 PROVE MapOf(o)[p.pairs[i].key] = p.pairs[i].value
      <3>1. from(i) \in 1 .. n /\ p.pairs[i] = o.pairs[from(i)]
        BY <1>3, <1>4
      <3>2. \A j \in 1 .. n : MapOf(o)[o.pairs[j].key] = o.pairs[j].value
        BY <1>2, MapOfPairs
      <3> QED
        BY <3>1, <3>2
    <2> QED
      BY <1>3, <2>1, <2>2, MapOfPairs DEF Without
  <1>10. MapOf(p) = Without(MapOf(o), k)
    BY <1>6, <1>7, <1>8, <1>9, MapIs
  <1> QED
    BY <1>6, <1>10

\* dict_object_remove takes away its key and no other.
LEMMA RemoveSound ==
  ASSUME NEW o, Sound(o), NEW k, NEW p, p = dict_object_remove(o, k)
  PROVE  Sound(p) /\ MapOf(p) = Without(MapOf(o), k)
  <1>1. CASE k \notin KeysOf(o)
    <2>1. p = o
      BY <1>1, FindKey DEF dict_object_remove
    <2>2. MapOf(o) = Without(MapOf(o), k)
      BY <1>1, MapTyped DEF Without
    <2> QED
      BY <2>1, <2>2
  <1>2. CASE k \in KeysOf(o)
    <2> DEFINE idx == dict_object_find_key(o, k)
               n == Len(o.pairs)
               rest == [i \in 1 .. n - 1 |-> IF i = idx THEN o.pairs[n] ELSE o.pairs[i]]
    <2>1. idx \in 1 .. n
      BY <1>2, FindKey
    <2>2. /\ o \in Objects /\ n \in Nat
          /\ \A i \in 1 .. n : o.pairs[i] \in Pair
      BY PairsTyped DEF Sound
    <2>3. p = [o EXCEPT !.pairs = rest]
      BY <2>1 DEF dict_object_remove
    <2> HIDE DEF idx
    <2>4. rest \in Seq(Pair)
      <3>1. n - 1 \in Nat /\ n \in 1 .. n /\ \A i \in 1 .. n - 1 : i \in 1 .. n
        BY <2>1, <2>2
      <3>2. rest \in [1 .. n - 1 -> Pair]
        BY <2>2, <3>1
      <3> QED
        BY <3>1, <3>2, FunctionIsSeq
    <2> HIDE DEF rest
    <2>5. p \in Objects /\ p.capacity = o.capacity /\ p.pairs = rest
      BY <2>2, <2>3, <2>4 DEF Objects
    <2> QED
      BY <1>2, <2>5, MoveSound DEF rest, idx
  <1> QED
    BY <1>1, <1>2

\* strcmp never says that a key comes before itself.
LEMMA BeforeIrreflexive ==
  ASSUME NEW a \in Keys
  PROVE  ~Before(a, a)
  <1>1. a \in Seq(Nat)
    BY KeysAssumption
  <1>2. DOMAIN a = 1 .. Len(a) /\ \A n \in 1 .. Len(a) : a[n] \in Nat
    BY <1>1, LenProperties
  <1> QED
    BY <1>2 DEF Before

\* An ordered selection of the pairs is a permutation of them: as many, no key
\* twice, so none is missing.
LEMMA OrderedIsPermutation ==
  ASSUME NEW o, Sound(o),
         NEW s \in [DOMAIN o.pairs -> {o.pairs[i] : i \in DOMAIN o.pairs}],
         \A i, j \in DOMAIN s : i < j => Before(s[i].key, s[j].key)
  PROVE  /\ \A i, j \in DOMAIN o.pairs : s[i].key = s[j].key => i = j
         /\ \A j \in DOMAIN o.pairs : \E i \in DOMAIN o.pairs : s[i] = o.pairs[j]
  <1> DEFINE n == Len(o.pairs)
             R == {o.pairs[i] : i \in DOMAIN o.pairs}
  <1>1. /\ n \in Nat /\ DOMAIN o.pairs = 1 .. n /\ o.pairs \in [1 .. n -> R]
        /\ \A i \in 1 .. n : o.pairs[i].key \in Keys
    BY PairsTyped
  <1>2. s \in [1 .. n -> R] /\ \A i \in 1 .. n : s[i].key \in Keys
    BY <1>1
  <1>3. \A i, j \in 1 .. n : s[i].key = s[j].key => i = j
    <2>1. \A i, j \in 1 .. n : i < j => s[i].key # s[j].key
      BY <1>1, <1>2, BeforeIrreflexive
    <2> QED
      BY <1>1, <2>1
  <1>4. o.pairs \in Surjection(1 .. n, R)
    BY <1>1 DEF Surjection
  <1>5. o.pairs \in Injection(1 .. n, R)
    BY <1>1 DEF Injection, IsInjective, Sound, Distinct
  <1>6. s \in Injection(1 .. n, R)
    BY <1>2, <1>3 DEF Injection, IsInjective
  <1> HIDE DEF R
  <1>7. IsFiniteSet(1 .. n)
    BY <1>1, FS_Interval
  <1>8. IsFiniteSet(R) /\ Cardinality(R) = Cardinality(1 .. n)
    BY <1>4, <1>5, <1>7, FS_Surjection
  <1>9. s \in Surjection(1 .. n, R)
    BY <1>6, <1>8, FS_Injection
  <1>10. \A j \in 1 .. n : \E i \in 1 .. n : s[i] = o.pairs[j]
    BY <1>1, <1>9 DEF Surjection
  <1> QED
    BY <1>1, <1>3, <1>10

\* dict_object_sort_keys: sorting loses and duplicates nothing.
LEMMA SortSound ==
  ASSUME NEW o, Sound(o),
         NEW s \in [DOMAIN o.pairs -> {o.pairs[i] : i \in DOMAIN o.pairs}],
         \A i, j \in DOMAIN s : i < j => Before(s[i].key, s[j].key),
         NEW p \in Objects, p.pairs = s, p.capacity = o.capacity
  PROVE  Sound(p) /\ MapOf(p) = MapOf(o)
  <1> DEFINE n == Len(o.pairs)
  <1>1. /\ o \in Objects /\ n \in Nat /\ DOMAIN o.pairs = 1 .. n
        /\ \A i \in 1 .. n : o.pairs[i] \in Pair
    BY PairsTyped DEF Sound
  <1>2. s \in [1 .. n -> Pair]
    BY <1>1
  <1>3. s \in Seq(Pair) /\ Len(s) = n /\ DOMAIN s = 1 .. n
    BY <1>1, <1>2, FunctionIsSeq
  <1>5. /\ \A i, j \in 1 .. n : s[i].key = s[j].key => i = j
        /\ \A j \in 1 .. n : \E i \in 1 .. n : s[i] = o.pairs[j]
        /\ \A i \in 1 .. n : \E j \in 1 .. n : s[i] = o.pairs[j]
    <2>1. \A i \in 1 .. n : s[i] \in {o.pairs[j] : j \in 1 .. n}
      BY <1>1
    <2>2. \A i \in 1 .. n : \E j \in 1 .. n : s[i] = o.pairs[j]
      BY <2>1
    <2>3. /\ \A i, j \in DOMAIN o.pairs : s[i].key = s[j].key => i = j
          /\ \A j \in DOMAIN o.pairs : \E i \in DOMAIN o.pairs : s[i] = o.pairs[j]
      BY OrderedIsPermutation
    <2> QED
      BY <1>1, <2>2, <2>3
  <1>6. Sound(p)
    BY <1>1, <1>3, <1>5 DEF Sound, Distinct
  <1>7. KeysOf(p) = KeysOf(o)
    <2>1. KeysOf(o) = {o.pairs[i].key : i \in 1 .. n} /\ KeysOf(p) = {s[i].key : i \in 1 .. n}
      BY <1>1, <1>3 DEF KeysOf
    <2>2. KeysOf(p) \subseteq KeysOf(o)
      <3>1. \A i \in 1 .. n : \E j \in 1 .. n : s[i].key = o.pairs[j].key
        BY <1>5
      <3> QED
        BY <2>1, <3>1
    <2>3. KeysOf(o) \subseteq KeysOf(p)
      <3>1. \A j \in 1 .. n : \E i \in 1 .. n : s[i].key = o.pairs[j].key
        BY <1>5
      <3> QED
        BY <2>1, <3>1
    <2> QED
      BY <2>2, <2>3
  <1>8. ASSUME NEW i \in DOMAIN p.pairs
        PROVE  MapOf(o)[p.pairs[i].key] = p.pairs[i].value
    <2>1. PICK j \in 1 .. n : p.pairs[i] = o.pairs[j]
      BY <1>3, <1>5
    <2> QED
      BY <1>1, <2>1, MapOfPairs
  <1>9. MapOf(p) = MapOf(o)
    BY <1>6, <1>7, <1>8, MapTyped, MapIs
  <1> QED
    BY <1>6, <1>9

-----------------------------------------------------------------------------
\* Every call preserves the invariant and does to the map what its name says.
LEMMA CallSteps ==
  ASSUME Sound(obj)
  PROVE  /\ \A k \in Keys, v \in Values : SetKey(k, v) =>
              Sound(obj)' /\ (M!Put(k, v) \/ UNCHANGED MapOf(obj))
         /\ \A k \in Keys : RemoveKey(k) => Sound(obj)' /\ M!Delete(k)
         /\ SortKeys => Sound(obj)' /\ UNCHANGED MapOf(obj)
         /\ Recreate => Sound(obj)' /\ M!Clear
  <1>1. DOMAIN MapOf(obj) = KeysOf(obj)
    BY MapOfPairs
  <1>2. ASSUME NEW k \in Keys, NEW v \in Values, SetKey(k, v)
        PROVE  Sound(obj)' /\ (M!Put(k, v) \/ UNCHANGED MapOf(obj))
    <2>1. PICK fuel \in 0 .. 2 : obj' = dict_object_set(obj, k, v, fuel).obj
      BY <1>2 DEF SetKey
    <2>2. fuel \in Nat
      OBVIOUS
    <2>3. /\ Sound(obj')
          /\ MapOf(obj') = MapOf(obj) \/ MapOf(obj') = With(MapOf(obj), k, v)
      BY <2>1, <2>2, SetSound
    <2> QED
      BY <2>3 DEF M!Put, With
  <1>3. ASSUME NEW k \in Keys, RemoveKey(k)
        PROVE  Sound(obj)' /\ M!Delete(k)
    <2>1. Sound(obj') /\ MapOf(obj') = Without(MapOf(obj), k)
      BY <1>3, RemoveSound DEF RemoveKey
    <2> QED
      BY <2>1 DEF M!Delete, Without
  <1>4. ASSUME SortKeys PROVE Sound(obj)' /\ UNCHANGED MapOf(obj)
    <2> DEFINE n == Len(obj.pairs)
    <2>1. PICK s \in [DOMAIN obj.pairs -> {obj.pairs[i] : i \in DOMAIN obj.pairs}] :
            /\ \A i, j \in DOMAIN s : i < j => Before(s[i].key, s[j].key)
            /\ obj' = [obj EXCEPT !.pairs = s]
      BY <1>4 DEF SortKeys
    <2>2. /\ obj \in Objects /\ n \in Nat /\ DOMAIN obj.pairs = 1 .. n
          /\ \A i \in 1 .. n : obj.pairs[i] \in Pair
      BY PairsTyped DEF Sound
    <2>3. s \in [1 .. n -> Pair]
      BY <2>2
    <2>4. s \in Seq(Pair)
      BY <2>2, <2>3, FunctionIsSeq
    <2>5. obj' \in Objects /\ obj'.pairs = s /\ obj'.capacity = obj.capacity
      BY <2>1, <2>2, <2>4 DEF Objects
    <2>6. Sound(obj') /\ MapOf(obj') = MapOf(obj)
      BY <2>1, <2>5, SortSound
    <2> QED
      BY <2>6
  <1>5. ASSUME Recreate PROVE Sound(obj)' /\ M!Clear
    BY <1>5, EmptySound DEF Recreate, M!Clear
  <1> QED
    BY <1>2, <1>3, <1>4, <1>5

\* The inductive invariant of every sequence of calls.
THEOREM DictSound == DictSpec => []Sound(obj)
  <1>1. Init => Sound(obj)
    BY EmptySound DEF Init
  <1>2. Sound(obj) /\ [DictNext]_obj => Sound(obj)'
    <2> SUFFICES ASSUME Sound(obj), [DictNext]_obj PROVE Sound(obj)'
      OBVIOUS
    <2>1. CASE DictNext
      BY <2>1, CallSteps DEF DictNext
    <2>2. CASE UNCHANGED obj
      BY <2>2
    <2> QED
      BY <2>1, <2>2
  <1> QED
    BY <1>1, <1>2, PTL DEF DictSpec

\* dict_object_set, dict_object_remove, dict_object_sort_keys: no pair is
\* written past the allocation and no key occurs twice, whatever allocation fails.
THEOREM PairsAlwaysInRoom == DictSpec => []PairsInRoom
  <1>1. Sound(obj) => PairsInRoom
    BY DEF Sound, Distinct, PairsInRoom
  <1> QED
    BY <1>1, DictSound, PTL

\* The pair array implements a map that changes one key at a time.
THEOREM DictImplementsMap == DictSpec => RefinesMap
  <1>1. Init => M!Init
    BY EmptySound DEF Init, M!Init
  <1>2. Sound(obj) /\ [DictNext]_obj => [M!Next]_(MapOf(obj))
    <2> SUFFICES ASSUME Sound(obj), [DictNext]_obj PROVE [M!Next]_(MapOf(obj))
      OBVIOUS
    <2>1. CASE DictNext
      BY <2>1, CallSteps DEF DictNext, M!Next
    <2>2. CASE UNCHANGED obj
      BY <2>2 DEF MapOf, KeysOf
    <2> QED
      BY <2>1, <2>2
  <1> QED
    BY <1>1, <1>2, DictSound, PTL DEF DictSpec, RefinesMap, M!Spec

\* Each call is the operation of the map its name says, or fails without effect.
THEOREM CallsImplementOperations == DictSpec => CallsRefine
  <1> DEFINE A == /\ \A k \in Keys, v \in Values :
                       SetKey(k, v) => M!Put(k, v) \/ UNCHANGED MapOf(obj)
                  /\ \A k \in Keys : RemoveKey(k) => M!Delete(k)
                  /\ SortKeys => UNCHANGED MapOf(obj)
  <1>1. Sound(obj) /\ [DictNext]_obj => [A]_obj
    BY CallSteps
  <1>2. CallsRefine <=> [][A]_obj
    BY DEF CallsRefine
  <1> QED
    BY <1>1, <1>2, DictSound, PTL DEF DictSpec

-----------------------------------------------------------------------------
(* Paths.                                                                     *)

\* Natural numbers have least elements.
LEMMA LeastNat ==
  ASSUME NEW T, T \subseteq Nat, T # {}
  PROVE  \E i \in T : \A j \in T : i <= j
  <1> DEFINE R == OpToRel(<, Nat)
  <1>1. IsWellFoundedOn(R, Nat)
    BY NatLessThanWellFounded
  <1>2. \A i, j \in Nat : <<j, i>> \in R <=> j < i
    BY DEF OpToRel
  <1> HIDE DEF R
  <1>3. PICK i \in T : \A j \in T : ~(<<j, i>> \in R)
    BY <1>1, WFMin
  <1>4. ASSUME NEW j \in T PROVE i <= j
    <2>1. i \in Nat /\ j \in Nat
      OBVIOUS
    <2>2. ~(j < i)
      BY <1>2, <1>3, <2>1
    <2> QED
      BY <2>1, <2>2
  <1> QED
    BY <1>4

(* What the loop of dict_find_path does at position i, after at before it. *)
Passed(root, path, at, i) ==
  IF i = 0 THEN [found |-> TRUE, value |-> root]
  ELSE IF path[i] = Slash THEN Enter(at[i - 1], Segment(path, i))
  ELSE at[i - 1]

\* dict_find_path leads where any account of its loop, position by position,
\* leads: the first position at which two accounts differ cannot be.
LEMMA Walked ==
  ASSUME NEW root, NEW path \in Seq(Nat), NEW f,
         f = [i \in 0 .. Len(path) |-> Passed(root, path, f, i)]
  PROVE  dict_find_path(root, path) = Enter(f[Len(path)], Segment(path, Len(path) + 1))
  <1> DEFINE n == Len(path)
             at == CHOOSE g : g = [i \in 0 .. n |-> Passed(root, path, g, i)]
             T == {i \in 0 .. n : at[i] # f[i]}
  <1>1. n \in Nat
    BY LenProperties
  <1>2. at = [i \in 0 .. n |-> Passed(root, path, at, i)]
    OBVIOUS
  <1>3. \A i \in 0 .. n : at[i] = Passed(root, path, at, i) /\ f[i] = Passed(root, path, f, i)
    BY <1>2
  <1>4. dict_find_path(root, path) = Enter(at[n], Segment(path, n + 1))
    BY DEF dict_find_path, Passed
  <1> HIDE DEF at, n
  <1>5. T = {}
    <2>1. SUFFICES ASSUME T # {} PROVE FALSE
      OBVIOUS
    <2>2. PICK m \in T : \A j \in T : m <= j
      <3>1. T \subseteq Nat
        BY <1>1
      <3> HIDE DEF T
      <3> QED
        BY <2>1, <3>1, LeastNat
    <2>3. at[0] = f[0]
      <3>1. 0 \in 0 .. n
        BY <1>1
      <3> QED
        BY <1>3, <3>1 DEF Passed
    <2>4. m \in 0 .. n /\ m # 0 /\ m - 1 \in 0 .. n /\ ~(m <= m - 1)
      BY <1>1, <2>2, <2>3
    <2>5. at[m - 1] = f[m - 1]
      BY <2>2, <2>4
    <2>6. at[m] = f[m]
      <3>1. at[m] = Passed(root, path, at, m) /\ f[m] = Passed(root, path, f, m)
        BY <1>3, <2>4
      <3> QED
        BY <2>4, <2>5, <3>1 DEF Passed
    <2> QED
      BY <2>2, <2>6
  <1>6. at[n] = f[n]
    <2>1. n \in 0 .. n
      BY <1>1
    <2>2. n \notin T
      BY <1>5
    <2> QED
      BY <2>1, <2>2
  <1> QED
    BY <1>4, <1>6 DEF n

\* The segment that ends before position i starts behind the last slash before it.
LEMMA SegmentIs ==
  ASSUME NEW path \in Seq(Nat), NEW i \in 1 .. Len(path) + 1, NEW l \in 0 .. i - 1,
         l = 0 \/ path[l] = Slash,
         \A j \in l + 1 .. i - 1 : path[j] # Slash
  PROVE  /\ Segment(path, i) \in Seq(Nat)
         /\ Len(Segment(path, i)) = i - 1 - l
         /\ \A j \in 1 .. i - 1 - l : Segment(path, i)[j] = path[l + j]
  <1> DEFINE ends == {0} \cup {j \in 1 .. i - 1 : path[j] = Slash}
             last == CHOOSE j \in ends : \A k \in ends : k <= j
             s == SubSeq(path, l + 1, i - 1)
  <1>1. /\ Len(path) \in Nat /\ i \in Nat /\ l \in Nat /\ i - 1 \in Int /\ l + 1 \in Int
        /\ i - 1 <= Len(path)
    BY LenProperties
  <1>2. l \in ends /\ \A k \in ends : k <= l
    BY <1>1
  <1>3. \A j \in ends : (\A k \in ends : k <= j) => j = l
    BY <1>1, <1>2
  <1>4. last = l
    BY <1>2, <1>3
  <1>5. Segment(path, i) = s
    BY <1>4 DEF Segment
  <1>6. \A j \in l + 1 .. i - 1 : path[j] \in Nat
    BY <1>1, ElementOfSeq
  <1>7. /\ s \in Seq(Nat)
        /\ Len(s) = IF l + 1 <= i - 1 THEN (i - 1) - (l + 1) + 1 ELSE 0
        /\ \A j \in 1 .. (i - 1) - (l + 1) + 1 : s[j] = path[(l + 1) + j - 1]
    BY <1>1, <1>6, SubSeqProperties
  <1> HIDE DEF s
  <1>8. Len(s) = i - 1 - l
    BY <1>1, <1>7
  <1>9. \A j \in 1 .. i - 1 - l : j \in 1 .. (i - 1) - (l + 1) + 1 /\ (l + 1) + j - 1 = l + j
    BY <1>1
  <1>10. \A j \in 1 .. i - 1 - l : s[j] = path[l + j]
    BY <1>7, <1>9
  <1> QED
    BY <1>5, <1>7, <1>8, <1>10

\* A path without a slash is one segment.
LEMMA OneSegment ==
  ASSUME NEW root, NEW k \in Seq(Nat), \A i \in 1 .. Len(k) : k[i] # Slash
  PROVE  dict_find_path(root, k) = Enter([found |-> TRUE, value |-> root], k)
  <1> DEFINE n == Len(k)
             top == [found |-> TRUE, value |-> root]
             f == [i \in 0 .. n |-> top]
             s == Segment(k, n + 1)
  <1>1. n \in Nat
    BY LenProperties
  <1>2. f = [i \in 0 .. n |-> Passed(root, k, f, i)]
    BY <1>1 DEF Passed
  <1>3. dict_find_path(root, k) = Enter(f[n], s)
    BY <1>2, Walked
  <1>4. s \in Seq(Nat) /\ Len(s) = n /\ \A j \in 1 .. n : s[j] = k[j]
    <2>1. n + 1 \in 1 .. Len(k) + 1 /\ 0 \in 0 .. (n + 1) - 1
      BY <1>1
    <2>2. \A j \in 0 + 1 .. (n + 1) - 1 : k[j] # Slash
      BY <1>1
    <2>3. /\ s \in Seq(Nat) /\ Len(s) = (n + 1) - 1 - 0
          /\ \A j \in 1 .. (n + 1) - 1 - 0 : s[j] = k[0 + j]
      BY <2>1, <2>2, SegmentIs
    <2> QED
      BY <1>1, <2>3
  <1>5. s = k
    BY <1>4, SeqEqual
  <1> QED
    BY <1>1, <1>3, <1>5

\* Two keys with a slash between them: two segments, one entered after the other.
LEMMA TwoSegments ==
  ASSUME NEW root, NEW k1 \in Seq(Nat), NEW k2 \in Seq(Nat),
         \A i \in 1 .. Len(k1) : k1[i] # Slash,
         \A i \in 1 .. Len(k2) : k2[i] # Slash
  PROVE  dict_find_path(root, k1 \o <<Slash>> \o k2)
         = Enter(Enter([found |-> TRUE, value |-> root], k1), k2)
  <1> DEFINE path == k1 \o <<Slash>> \o k2
             n1 == Len(k1)
             n2 == Len(k2)
             n == n1 + 1 + n2
             top == [found |-> TRUE, value |-> root]
             next == Enter(top, k1)
             f == [i \in 0 .. n |-> IF i <= n1 THEN top ELSE next]
             s1 == Segment(path, n1 + 1)
             s2 == Segment(path, n + 1)
  <1>1. /\ n1 \in Nat /\ n2 \in Nat /\ n \in Nat
        /\ (\A i \in 1 .. n1 : k1[i] # Slash) /\ (\A i \in 1 .. n2 : k2[i] # Slash)
    BY LenProperties
  <1>2. /\ path \in Seq(Nat) /\ Len(path) = n
        /\ \A i \in 1 .. n1 : path[i] = k1[i]
        /\ path[n1 + 1] = Slash
        /\ \A i \in 1 .. n2 : path[n1 + 1 + i] = k2[i]
    <2> DEFINE head == k1 \o <<Slash>>
    <2>1. /\ <<Slash>> \in Seq(Nat) /\ Len(<<Slash>>) = 1 /\ <<Slash>>[1] = Slash
      BY DEF Slash
    <2>2. /\ head \in Seq(Nat) /\ Len(head) = n1 + 1
          /\ \A i \in 1 .. n1 + 1 : head[i] = IF i <= n1 THEN k1[i] ELSE <<Slash>>[i - n1]
      BY <2>1, ConcatProperties
    <2>3. /\ \A i \in 1 .. n1 : head[i] = k1[i]
          /\ head[n1 + 1] = Slash
      BY <1>1, <2>1, <2>2
    <2> HIDE DEF head
    <2>4. /\ head \o k2 \in Seq(Nat) /\ Len(head \o k2) = n1 + 1 + n2
          /\ \A i \in 1 .. n1 + 1 + n2 : (head \o k2)[i] = IF i <= n1 + 1 THEN head[i] ELSE k2[i - (n1 + 1)]
      <3>1. /\ head \o k2 \in Seq(Nat) /\ Len(head \o k2) = Len(head) + n2
            /\ \A i \in 1 .. Len(head) + n2 : (head \o k2)[i] = IF i <= Len(head) THEN head[i] ELSE k2[i - Len(head)]
        BY <2>2, ConcatProperties
      <3> HIDE DEF n1, n2
      <3> QED
        BY <2>2, <3>1
    <2>5. path = head \o k2
      BY DEF head
    <2> HIDE DEF path, n1, n2
    <2>6. \A i \in 1 .. n2 : /\ n1 + 1 + i \in 1 .. n1 + 1 + n2 /\ ~(n1 + 1 + i <= n1 + 1)
                             /\ (n1 + 1 + i) - (n1 + 1) = i
      BY <1>1
    <2>7. \A i \in 1 .. n1 : i \in 1 .. n1 + 1 + n2 /\ i <= n1 + 1
      BY <1>1
    <2>8. n1 + 1 \in 1 .. n1 + 1 + n2
      BY <1>1
    <2>9. path[n1 + 1] = Slash /\ \A i \in 1 .. n1 : path[i] = k1[i]
      <3>1. ~(n1 + 1 <= n1)
        BY <1>1
      <3>2. path[n1 + 1] = head[n1 + 1]
        BY <1>1, <2>4, <2>5, <2>8
      <3>3. ASSUME NEW i \in 1 .. n1 PROVE path[i] = k1[i]
        <4>1. i \in 1 .. n1 + 1 + n2 /\ i <= n1 + 1
          BY <2>7
        <4>2. path[i] = head[i]
          BY <2>4, <2>5, <4>1
        <4>3. head[i] = k1[i]
          BY <2>3
        <4> QED
          BY <4>2, <4>3
      <3> QED
        BY <2>3, <3>2, <3>3
    <2>10. \A i \in 1 .. n2 : path[n1 + 1 + i] = k2[i]
      BY <2>4, <2>5, <2>6
    <2> QED
      BY <2>4, <2>5, <2>9, <2>10
  <1> HIDE DEF path, n1, n2
  <1>3. s1 = k1
    <2>1. n1 + 1 \in 1 .. Len(path) + 1 /\ 0 \in 0 .. (n1 + 1) - 1
      BY <1>1, <1>2
    <2>2. ASSUME NEW j \in 0 + 1 .. (n1 + 1) - 1 PROVE path[j] # Slash
      <3>1. j \in 1 .. n1
        BY <1>1
      <3>2. path[j] = k1[j] /\ k1[j] # Slash
        BY <1>1, <1>2, <3>1
      <3> QED
        BY <3>2
    <2>3. /\ s1 \in Seq(Nat) /\ Len(s1) = (n1 + 1) - 1 - 0
          /\ \A j \in 1 .. (n1 + 1) - 1 - 0 : s1[j] = path[0 + j]
      BY <1>2, <2>1, <2>2, SegmentIs
    <2> HIDE DEF s1
    <2>4. Len(s1) = n1 /\ \A j \in 1 .. n1 : s1[j] = k1[j]
      <3>1. (n1 + 1) - 1 - 0 = n1 /\ \A j \in 1 .. n1 : 0 + j = j
        BY <1>1
      <3> QED
        BY <1>2, <2>3, <3>1
    <2> QED
      BY <2>3, <2>4, SeqEqual DEF n1
  <1>4. s2 = k2
    <2>1. n + 1 \in 1 .. Len(path) + 1 /\ n1 + 1 \in 0 .. (n + 1) - 1
      BY <1>1, <1>2
    <2>2. ASSUME NEW j \in (n1 + 1) + 1 .. (n + 1) - 1 PROVE path[j] # Slash
      <3>1. PICK i \in 1 .. n2 : j = n1 + 1 + i
        <4>1. j - (n1 + 1) \in 1 .. n2 /\ j = n1 + 1 + (j - (n1 + 1))
          BY <1>1
        <4> QED
          BY <4>1
      <3> QED
        BY <1>1, <1>2, <3>1
    <2>3. /\ s2 \in Seq(Nat) /\ Len(s2) = (n + 1) - 1 - (n1 + 1)
          /\ \A j \in 1 .. (n + 1) - 1 - (n1 + 1) : s2[j] = path[(n1 + 1) + j]
      BY <1>2, <2>1, <2>2, SegmentIs
    <2>4. (n + 1) - 1 - (n1 + 1) = n2
      BY <1>1
    <2> HIDE DEF s2
    <2>5. Len(s2) = Len(k2) /\ \A j \in 1 .. Len(s2) : s2[j] = k2[j]
      BY <1>1, <1>2, <2>3, <2>4 DEF n2
    <2> QED
      BY <2>3, <2>5, SeqEqual
  <1>5. f = [i \in 0 .. Len(path) |-> Passed(root, path, f, i)]
    <2>1. ASSUME NEW i \in 0 .. n PROVE f[i] = Passed(root, path, f, i)
      <3>1. CASE i = 0
        BY <1>1, <3>1 DEF Passed
      <3>2. CASE i \in 1 .. n1
        <4>1. /\ i # 0 /\ path[i] # Slash /\ i - 1 \in 0 .. n /\ i - 1 <= n1 /\ i <= n1
          <5>1. path[i] = k1[i] /\ k1[i] # Slash
            BY <1>1, <1>2, <3>2
          <5> QED
            BY <1>1, <3>2, <5>1
        <4> QED
          BY <4>1 DEF Passed
      <3>3. CASE i = n1 + 1
        <4>1. i # 0 /\ path[i] = Slash /\ i - 1 \in 0 .. n /\ i - 1 <= n1 /\ ~(i <= n1)
          BY <1>1, <1>2, <3>3
        <4>2. f[i - 1] = top /\ f[i] = next
          BY <4>1
        <4> HIDE DEF f
        <4> QED
          BY <1>3, <3>3, <4>1, <4>2 DEF Passed
      <3>4. CASE i \in n1 + 2 .. n
        <4>1. i - (n1 + 1) \in 1 .. n2 /\ n1 + 1 + (i - (n1 + 1)) = i
          BY <1>1, <3>4
        <4>2. path[i] # Slash
          BY <1>1, <1>2, <4>1
        <4>3. i # 0 /\ i - 1 \in 0 .. n /\ ~(i - 1 <= n1) /\ ~(i <= n1)
          BY <1>1, <3>4
        <4> QED
          BY <4>2, <4>3 DEF Passed
      <3>5. i = 0 \/ i \in 1 .. n1 \/ i = n1 + 1 \/ i \in n1 + 2 .. n
        BY <1>1
      <3> QED
        BY <3>1, <3>2, <3>3, <3>4, <3>5
    <2> QED
      BY <1>2, <2>1
  <1>6. dict_find_path(root, path) = Enter(f[Len(path)], Segment(path, Len(path) + 1))
    <2> HIDE DEF f
    <2>1. PICK q \in Seq(Nat) : q = path
      BY <1>2
    <2>2. PICK g : g = f
      OBVIOUS
    <2>3. g = [i \in 0 .. Len(q) |-> Passed(root, q, g, i)]
      BY <1>5, <2>1, <2>2
    <2>4. dict_find_path(root, q) = Enter(g[Len(q)], Segment(q, Len(q) + 1))
      BY <2>3, Walked
    <2> QED
      BY <2>1, <2>2, <2>4
  <1>7. f[n] = next
    BY <1>1
  <1> HIDE DEF f
  <1>8. dict_find_path(root, path) = Enter(next, k2)
    BY <1>2, <1>4, <1>6, <1>7
  <1> QED
    BY <1>8 DEF path

\* dict_object_set refuses the empty key, so no object that calls can make has it.
THEOREM NoEmptyKey == DictSpec => [](<<>> \notin KeysOf(obj))
  <1> DEFINE N == <<>> \notin KeysOf(obj)
  <1>1. Init => N
    <2>1. SUFFICES ASSUME Init PROVE N
      OBVIOUS
    <2>2. DOMAIN MapOf(obj) = {}
      BY <2>1, EmptySound DEF Init
    <2> QED
      BY <2>1, <2>2, EmptySound, MapOfPairs DEF Init
  <1>2. Sound(obj) /\ Sound(obj)' /\ N /\ [DictNext]_obj => N'
    <2>1. SUFFICES ASSUME Sound(obj), Sound(obj'), N, DictNext PROVE N'
      BY DEF KeysOf
    <2>2. DOMAIN MapOf(obj) = KeysOf(obj) /\ DOMAIN MapOf(obj') = KeysOf(obj')
      BY <2>1, MapOfPairs
    <2>3. ASSUME NEW k \in Keys, NEW v \in Values, SetKey(k, v) PROVE N'
      <3>1. CASE k = <<>>
        <4>1. obj' = obj
          BY <2>3, <3>1, EmptySeq DEF SetKey, dict_object_set
        <4> QED
          BY <2>1, <4>1
      <3>2. CASE k # <<>>
        <4>1. M!Put(k, v) \/ UNCHANGED MapOf(obj)
          BY <2>1, <2>3, CallSteps
        <4> QED
          BY <2>1, <2>2, <3>2, <4>1 DEF M!Put
      <3> QED
        BY <3>1, <3>2
    <2>4. ASSUME NEW k \in Keys, RemoveKey(k) PROVE N'
      <3>1. M!Delete(k)
        BY <2>1, <2>4, CallSteps
      <3> QED
        BY <2>1, <2>2, <3>1 DEF M!Delete
    <2>5. CASE SortKeys
      <3>1. UNCHANGED MapOf(obj)
        BY <2>1, <2>5, CallSteps
      <3> QED
        BY <2>1, <2>2, <3>1
    <2>6. CASE Recreate
      <3>1. M!Clear
        BY <2>1, <2>6, CallSteps
      <3> QED
        BY <2>2, <3>1 DEF M!Clear
    <2> QED
      BY <2>1, <2>3, <2>4, <2>5, <2>6 DEF DictNext
  <1> HIDE DEF N
  <1>3. DictSpec => []N
    BY <1>1, <1>2, DictSound, PTL DEF DictSpec
  <1> QED
    BY <1>3 DEF N

\* dict_find_path: in every object that calls can build, a path of one or two
\* keys leads where dict_object_get leads with one key after the other.
THEOREM PathsAlwaysResolve == DictSpec => []PathsResolve
  <1>1. Sound(obj) /\ <<>> \notin KeysOf(obj) => PathsResolve
    <2> SUFFICES ASSUME Sound(obj), <<>> \notin KeysOf(obj), NEW k1 \in Keys, NEW k2 \in Keys
                 PROVE  /\ Slash \notin {k1[i] : i \in DOMAIN k1} =>
                             dict_find_path(obj, k1) = dict_object_get(obj, k1)
                        /\ Slash \notin {k1[i] : i \in DOMAIN k1} \cup {k2[i] : i \in DOMAIN k2} =>
                             dict_find_path(obj, k1 \o <<Slash>> \o k2)
                             = IF /\ dict_object_get(obj, k1).found
                                  /\ dict_object_get(obj, k1).value.type = "object"
                               THEN dict_object_get(dict_object_get(obj, k1).value, k2)
                               ELSE [found |-> FALSE]
      BY DEF PathsResolve
    <2> DEFINE top == [found |-> TRUE, value |-> obj]
               v == dict_object_get(obj, k1)
    <2>1. /\ k1 \in Seq(Nat) /\ DOMAIN k1 = 1 .. Len(k1)
          /\ k2 \in Seq(Nat) /\ DOMAIN k2 = 1 .. Len(k2)
      BY KeysAssumption, LenProperties
    <2>2. Enter(top, k1) = v
      <3>1. obj.type = "object"
        BY DEF Sound, Objects
      <3>2. CASE k1 = <<>>
        <4>1. v = [found |-> FALSE]
          BY <3>2, FindKey DEF dict_object_get
        <4> QED
          BY <3>2, <4>1 DEF Enter
      <3>3. CASE k1 # <<>>
        BY <3>1, <3>3 DEF Enter
      <3> QED
        BY <3>2, <3>3
    <2>3. ASSUME Slash \notin {k1[i] : i \in DOMAIN k1} PROVE dict_find_path(obj, k1) = v
      <3>1. \A i \in 1 .. Len(k1) : k1[i] # Slash
        BY <2>1, <2>3
      <3> QED
        BY <2>1, <2>2, <3>1, OneSegment
    <2>4. ASSUME Slash \notin {k1[i] : i \in DOMAIN k1} \cup {k2[i] : i \in DOMAIN k2}
          PROVE  dict_find_path(obj, k1 \o <<Slash>> \o k2) = Enter(v, k2)
      <3>1. /\ \A i \in 1 .. Len(k1) : k1[i] # Slash
            /\ \A i \in 1 .. Len(k2) : k2[i] # Slash
        BY <2>1, <2>4
      <3>2. dict_find_path(obj, k1 \o <<Slash>> \o k2) = Enter(Enter(top, k1), k2)
        BY <2>1, <3>1, TwoSegments
      <3> QED
        BY <2>2, <3>2
    <2>5. Enter(v, k2) = IF v.found /\ v.value.type = "object" THEN dict_object_get(v.value, k2)
                         ELSE [found |-> FALSE]
      <3>1. CASE v.found /\ v.value.type = "object" /\ k2 = <<>>
        <4>1. v.value \in Values
          <5>1. dict_object_find_key(obj, k1) # 0
            BY <3>1 DEF dict_object_get
          <5>2. v.value = obj.pairs[dict_object_find_key(obj, k1)].value
            BY <5>1 DEF dict_object_get
          <5>3. dict_object_find_key(obj, k1) \in 1 .. Len(obj.pairs)
            BY <5>1, FindKey
          <5> QED
            BY <5>2, <5>3, PairsTyped
        <4>2. \A i \in DOMAIN v.value.pairs : v.value.pairs[i].key # <<>>
          BY <3>1, <4>1, ValuesAssumption
        <4> HIDE DEF v
        <4>3. dict_object_get(v.value, <<>>) = [found |-> FALSE]
          BY <4>2 DEF dict_object_get, dict_object_find_key
        <4> QED
          BY <3>1, <4>3 DEF Enter
      <3>2. CASE ~(v.found /\ v.value.type = "object" /\ k2 = <<>>)
        <4> HIDE DEF v
        <4> QED
          BY <3>2 DEF Enter
      <3> QED
        BY <3>1, <3>2
    <2> HIDE DEF v
    <2> QED
      BY <2>3, <2>4, <2>5 DEF v
  <1> QED
    BY <1>1, DictSound, NoEmptyKey, PTL
=============================================================================
